---- MODULE Spec2Model ----
(***************************************************************************)
(* A model of the conversation orchestrator of mcp-router-v2:              *)
(*   ChatService.process_query        src/src/domain/chat/service.py       *)
(*   ConversationState                src/src/domain/chat/models.py        *)
(*   ToolManager / ToolExecutor       src/src/domain/tools/                *)
(*   MessageConverter, LLMResponse    src/src/infrastructure/llm/          *)
(*   MCPClient.call_tool/list_tools   src/src/domain/mcp/client.py         *)
(*                                                                         *)
(* Specification Spec follows one query from the call of process_query to  *)
(* its return or its exception.  Specification SpecExecutor follows a      *)
(* ToolExecutor that is handed batches of tool calls directly, with tool   *)
(* names and ids a query of Spec does not use.  Both run the same          *)
(* ExecuteTool step.  The model provider and the tool providers are the    *)
(* environment: each model call answers with any response of Responses or  *)
(* fails, each capability listing succeeds or fails, each tool call        *)
(* answers after some duration or raises.  A step of the model is the code *)
(* between two awaits.                                                     *)
(*                                                                         *)
(* Further specifications over the same variables: SpecAnyId (a model that *)
(* may leave the id of a tool call empty), SpecRetry (the model call with  *)
(* the attempts of OpenRouterClient.chat_with_retry spelled out),          *)
(* SpecClients (MCPClient.connect and cleanup, and the capability          *)
(* discovery of ToolExecutor.get_available_tools), SpecSampling            *)
(* (MCPClient._sampling_callback), SpecDuplex (sampling requests           *)
(* interleaved with the outbound calls of the same connection), SpecCache  *)
(* (the tool cache of ToolManager.get_all_tools), SpecResources (the       *)
(* @references of a query, ChatService._process_resources),                *)
(* SpecConverter (MessageConverter and the content helpers, one call on    *)
(* some input, and a second parse of the same response), SpecProvider      *)
(* (chat_with_retry with the arguments of chat spelled out) and            *)
(* SpecInterleaved (two process_query calls interleaved on one             *)
(* ChatService).                                                           *)
(*                                                                         *)
(* Strings: a model text is "" or the tag "T<i>" of the response that      *)
(* carries it (texts are opaque to the code, so one fresh text per         *)
(* response is enough to tell them apart).  Durations and timeouts are in  *)
(* seconds.  The stored history keeps of every content block its type and  *)
(* its id or text: the code stores str(blocks), which no later step of the *)
(* loop reads, and the payload of a tool result is kept in tool_results    *)
(* and tool_result_message, where the code builds it.                      *)
(***************************************************************************)
EXTENDS Integers, Sequences, FiniteSets, TLC

VARIABLES
    pc,                   \* position of process_query
    request,              \* UserChatRequest (max_iterations)
    conversation,         \* ConversationState of the query
    total_tools_called,   \* local of process_query
    final_text_response,  \* local of process_query
    llm_request,          \* messages handed to the last model call
    llm_response,         \* local of process_query: the last LLMResponse
    llm_calls,            \* number of chat_with_retry invocations so far
    requested_calls,      \* the tool calls handed to execute_tools
    tool_calls,           \* execute_tools: the (capped) batch being executed
    results,              \* execute_tools: local list of results
    exec_log,             \* tool names the providers received by call_tool, this batch
    last_exec,            \* the last execute_tool call and what the providers did
    tool_results,         \* local of process_query: what execute_tool_calls returned
    tool_result_message,  \* local of process_query
    tool_exception,       \* exception that left execute_tools
    raised,               \* exception propagated to the caller of process_query
    response,             \* the ChatResponse returned
    session,              \* MCPClient._session per client: TRUE when set
    max_concurrent_tools, \* ToolExecutor.max_concurrent_tools
    mcp_client,           \* MCPClient per client: _exit_stack, position of connect/cleanup
    discovery,            \* ToolExecutor.get_available_tools: position and locals
    retry,                \* chat_with_retry: position and locals
    sampling,             \* MCPClient._sampling_callback: requests and answers
    outbound,             \* MCPClient per client: the outbound call awaiting its response
    manager,              \* ToolManager: _tools_cache, _cache_valid, position of get_all_tools
    io,                   \* MessageConverter: the call being made, its argument and result
    resources,            \* ChatService._process_resources: position and locals
    queries               \* per caller: the locals of its process_query call

vars == <<pc, request, conversation, total_tools_called, final_text_response,
          llm_request, llm_response, llm_calls, requested_calls, tool_calls,
          results, exec_log, last_exec, tool_results, tool_result_message,
          tool_exception, raised, response, session, max_concurrent_tools,
          mcp_client, discovery, retry, sampling,
          outbound, manager, io, resources, queries>>

\* the outbound calls of the clients, the capability cache, the message
\* converter and the resource resolution
aux_vars == <<outbound, manager, io, resources, queries>>

\* what process_query and execute_tools leave alone
service_vars == <<mcp_client, discovery, retry, sampling, aux_vars>>

---------------------------------------------------------------------------
(* Bounds of the model *)

\* largest max_iterations a request asks for
MaxIterations == 2

\* most tool-use blocks in one model response
MaxCalls == 2

\* largest max_retries a direct caller passes to chat_with_retry
MaxRetries == 3

\* most sampling requests a provider sends to one client
MaxSamplingRequests == 2

\* most whitespace-separated tokens of a query
MaxTokens == 2

---------------------------------------------------------------------------
(* Program constants *)

MAX_TOOL_CALLS_PER_ITERATION == 10

default_timeout == 25

tool_timeouts == [analyze |-> 60]

default_max_iterations == 5

\* shared/constants.py lines 66-68
RETRY_BACKOFF_FACTOR == 2

RETRY_STATUS_CODES == {429, 500, 502, 503, 504}

\* service.py line 263: the attempts _call_llm allows
call_llm_max_retries == 3

NO_RESPONSE_GENERATED == "No response generated"

\* ToolNotFoundException is a ToolExecutionError (shared/exceptions.py)
ToolExecutionErrors == {"ToolExecutionError", "ToolNotFoundException"}

---------------------------------------------------------------------------
(* The environment: tool providers and the model *)

\* clients in registration order (dict order of ToolExecutor.clients)
ClientOrder == <<"hr", "aux">>

Clients == {ClientOrder[i] : i \in DOMAIN ClientOrder}

\* what each provider's list_tools answers when it answers
ServerTools == [hr |-> {"analyze", "lookup"}, aux |-> {"lookup"}]

\* the tools of each provider in the order its list_tools answers them
ServerToolList == [hr |-> <<"analyze", "lookup">>, aux |-> <<"lookup">>]

\* tool-use blocks a model response may carry in a query; "ghost" is exposed
\* by no provider
ToolCallBlocks ==
    { [type |-> "tool_use", id |-> "a", name |-> "lookup"],
      [type |-> "tool_use", id |-> "g", name |-> "ghost"] }

\* tool calls handed to a ToolExecutor used on its own: a tool with an entry
\* in tool_timeouts, one without, one with an empty id, one that is unknown
ExecutorToolCalls ==
    { [id |-> "a", name |-> "analyze"],
      [id |-> "b", name |-> "lookup"],
      [id |-> "",  name |-> "lookup"],
      [id |-> "g", name |-> "ghost"] }

\* values of ToolExecutor.max_concurrent_tools: the default, which is what
\* ToolManager constructs, and 1, a cap that the batches of the model exceed
\* (the batches of the model are shorter than the default)
CapChoices == {1, MAX_TOOL_CALLS_PER_ITERATION}

StopReasons == {"end_turn", "tool_use", "stop"}

SeqsUpTo(S, n) == UNION {[1..k -> S] : k \in 0..n}

TextOf(i) == "T" \o ToString(i)

\* the same with a tool-use block to which the model gave no id: the wire
\* format is parsed with tool_call.get("id", "")
ToolCallBlocksAnyId ==
    ToolCallBlocks \cup {[type |-> "tool_use", id |-> "", name |-> "lookup"]}

\* the responses the model may give to call number i, with tool-use blocks
\* drawn from `blocks`
ResponsesOver(i, blocks) ==
    { [content |-> <<[type |-> "text", text |-> t]>> \o calls, stop_reason |-> s] :
        t \in {"", TextOf(i)}, calls \in SeqsUpTo(blocks, MaxCalls),
        s \in StopReasons }

Responses(i) == ResponsesOver(i, ToolCallBlocks)

\* how long a provider takes to answer a call_tool, and whether it raises
Durations == {20, 50, 200}

ProviderReplies ==
    {[kind |-> "result", after |-> d] : d \in Durations}
        \cup {[kind |-> "raise", after |-> 20]}

\* per client, whether list_tools answers in time
Listings == [Clients -> {"ok", "fail"}]

---------------------------------------------------------------------------
(* Values *)

Min(a, b) == IF a <= b THEN a ELSE b

Last(s) == s[Len(s)]

NoLLMResponse == [content |-> <<>>, stop_reason |-> "none"]

NoReply == [kind |-> "none", after |-> 0]

NoExec ==
    [name |-> "none", client |-> "none", reply |-> NoReply,
     listing |-> [c \in Clients |-> "none"]]

NoMessage == [role |-> "none", content |-> <<>>]

NoConversation ==
    [messages |-> <<>>, iteration_count |-> 0, max_iterations |-> 5,
     is_complete |-> FALSE]

\* an MCPClient: what its _exit_stack holds, where connect()/cleanup() stands
\* ("idle" when neither runs), what the last connect()/cleanup() ended with,
\* and whether some connect() completed and some cleanup() ran
NewClient ==
    [exit_stack |-> {}, pc |-> "idle", outcome |-> "none",
     connected_once |-> FALSE, cleaned_once |-> FALSE]

\* a client after a connect() that completed
ReadyClient ==
    [exit_stack |-> {"stdio_client", "ClientSession"}, pc |-> "idle",
     outcome |-> "returned", connected_once |-> TRUE, cleaned_once |-> FALSE]

NoDiscovery == [pc |-> "idle", index |-> 1, tools |-> <<>>, answered |-> <<>>]

\* chat_with_retry is not running
NoRetry ==
    [pc |-> "idle", max_retries |-> 0, attempt |-> 0, calls |-> 0,
     history |-> <<>>, delay |-> 0, exception |-> "none", response_of |-> 0]

\* no CreateMessageResult yet
NoCreateMessageResult ==
    [role |-> "", model |-> "", content |-> [type |-> "", text |-> ""]]

\* no request parameters and no arguments of chat: the callback is not running
NoParams == [messages |-> <<>>]
NoChatArguments == [temperature |-> <<>>, max_tokens |-> <<>>, called |-> FALSE]

\* no sampling request has reached any client; each has a provider bound
NoSampling ==
    [c \in Clients |->
        [pc |-> "idle", provider |-> TRUE, requests |-> 0, answers |-> 0,
         outcome |-> "none", result |-> NoCreateMessageResult, raised |-> "none",
         params |-> NoParams, chat |-> NoChatArguments]]

\* no client has an outbound call in flight
NoOutbound == [c \in Clients |-> [pc |-> "idle", op |-> "none"]]

\* ToolManager.__init__ (manager.py lines 29-40): an empty, invalid cache
NoManager ==
    [tools_cache |-> <<>>, cache_valid |-> FALSE, pc |-> "idle",
     returned |-> <<>>, from_cache |-> FALSE]

\* no second call has been made
NoSecondCall == [raised |-> "unset", value |-> <<>>]

\* no call of the message converter
NoIO ==
    [op |-> "none", input |-> <<>>, argument |-> <<>>, pc |-> "idle", output |-> <<>>,
     raised |-> "none", again |-> NoSecondCall]

\* _process_resources is not running
NoResources ==
    [pc |-> "idle", query |-> <<>>, refs |-> <<>>, index |-> 1, client_index |-> 1,
     loaded |-> <<>>, processed |-> <<>>]

NoChatResponse ==
    [response |-> "", iterations_used |-> 0, tools_called |-> 0,
     conversation_state |-> NoConversation,
     metadata |-> [max_iterations_reached |-> FALSE]]

\* the callers that have process_query running at the same time on one
\* ChatService
Callers == {1, 2}

\* the locals of a process_query that has not been called, and the replies
\* its awaits have received
NoQuery ==
    [pc |-> "idle", request |-> [max_iterations |-> 1, query |-> ""],
     conversation |-> NoConversation, available_tools |-> <<>>,
     total_tools_called |-> 0, final_text_response |-> "",
     requested_calls |-> <<>>, tool_calls |-> <<>>, results |-> <<>>,
     raised |-> "none", response |-> NoChatResponse, replies |-> <<>>]

NoQueries == [q \in Callers |-> NoQuery]

AuxIdle ==
    /\ outbound = NoOutbound
    /\ manager = NoManager
    /\ io = NoIO
    /\ resources = NoResources
    /\ queries = NoQueries

---------------------------------------------------------------------------
(* ConversationState (chat/models.py) *)

\* a history that is not given the tool-result messages
add_message_without_tool_results(conv, role, content, metadata) ==
    IF metadata.tool_results THEN conv
    ELSE [conv EXCEPT !.messages =
            Append(@, [role |-> role, content |-> content, metadata |-> metadata])]

add_message(conv, role, content, metadata) ==
    [conv EXCEPT !.messages =
        Append(@, [role |-> role, content |-> content, metadata |-> metadata])]

\* increment_iteration with the bound tested by > instead of >=
increment_iteration_late(conv) ==
    LET n == conv.iteration_count + 1 IN
    [conv EXCEPT !.iteration_count = n,
                 !.is_complete = IF n > conv.max_iterations THEN TRUE ELSE @]

increment_iteration(conv) ==
    LET n == conv.iteration_count + 1 IN
    [conv EXCEPT !.iteration_count = n,
                 !.is_complete = IF n >= conv.max_iterations THEN TRUE ELSE @]

\* get_messages_for_llm that leaves out the newest message
get_messages_for_llm_stale(conv) ==
    [i \in 1..(Len(conv.messages) - 1) |->
        [role |-> conv.messages[i].role, content |-> conv.messages[i].content]]

get_messages_for_llm(conv) ==
    [i \in DOMAIN conv.messages |->
        [role |-> conv.messages[i].role, content |-> conv.messages[i].content]]

---------------------------------------------------------------------------
(* LLMResponse (llm/models.py) *)

IsText(b) == b.type = "text"

IsToolUse(b) == b.type = "tool_use"

IsToolResult(b) == b.type = "tool_result"

\* " ".join(texts)
RECURSIVE JoinStrings(_)
JoinStrings(texts) ==
    IF texts = <<>> THEN ""
    ELSE IF Len(texts) = 1 THEN texts[1]
    ELSE texts[1] \o " " \o JoinStrings(Tail(texts))

\* block.text, and block.get("text", "") of a dict block
block_text(b) == IF "text" \in DOMAIN b THEN b.text ELSE ""

JoinTexts(blocks) == JoinStrings([i \in DOMAIN blocks |-> block_text(blocks[i])])

RECURSIVE DropEmptyHead(_)
DropEmptyHead(texts) ==
    IF texts # <<>> /\ texts[1] = "" THEN DropEmptyHead(Tail(texts)) ELSE texts

RECURSIVE DropEmptyLast(_)
DropEmptyLast(texts) ==
    IF texts # <<>> /\ texts[Len(texts)] = ""
    THEN DropEmptyLast(SubSeq(texts, 1, Len(texts) - 1))
    ELSE texts

\* " ".join(texts).strip(): a text of the model is empty or has no blank at
\* either end, so what strip() removes are the separators that the empty
\* texts at the two ends of the list leave behind
JoinStripped(texts) == JoinStrings(DropEmptyLast(DropEmptyHead(texts)))

get_text(resp) ==
    LET blocks == SelectSeq(resp.content, IsText) IN
    JoinStripped([i \in DOMAIN blocks |-> block_text(blocks[i])])

\* ToolCall(id, name, input) of every tool_use block, in order; the blocks of
\* the query loop carry no input, those of the converter do
get_tool_calls(resp) ==
    LET uses == SelectSeq(resp.content, IsToolUse) IN
    [i \in DOMAIN uses |->
        IF "input" \in DOMAIN uses[i]
        THEN [id |-> uses[i].id, name |-> uses[i].name, input |-> uses[i].input]
        ELSE [id |-> uses[i].id, name |-> uses[i].name]]

has_tool_calls(resp) == Len(get_tool_calls(resp)) > 0

---------------------------------------------------------------------------
(* MessageConverter (llm/message_converter.py) *)

create_assistant_message(resp) == [role |-> "assistant", content |-> resp.content]

\* create_tool_result_message that builds the blocks newest first
create_tool_result_message_reversed(res) ==
    [role |-> "user",
     content |-> [i \in DOMAIN res |->
        [type |-> "tool_result", tool_use_id |-> res[Len(res) + 1 - i].tool_use_id,
         content |-> res[Len(res) + 1 - i].content,
         is_error |-> res[Len(res) + 1 - i].is_error]]]

create_tool_result_message(res) ==
    [role |-> "user",
     content |-> [i \in DOMAIN res |->
        [type |-> "tool_result", tool_use_id |-> res[i].tool_use_id,
         content |-> res[i].content, is_error |-> res[i].is_error]]]

\* ChatService._message_content_to_str: what the stored string keeps of a block
StoredBlock(b) ==
    CASE IsText(b) -> [type |-> "text", text |-> b.text]
      [] IsToolUse(b) -> [type |-> "tool_use", id |-> b.id, name |-> b.name]
      [] IsToolResult(b) -> [type |-> "tool_result", tool_use_id |-> b.tool_use_id]
      [] OTHER -> b

message_content_to_str(content) == [i \in DOMAIN content |-> StoredBlock(content[i])]

---------------------------------------------------------------------------
(* MCPClient (mcp/client.py) *)

\* list_tools: the answer of client c; ok is FALSE when it raises MCPServerError
\* (no session, or the provider fails) or the 5 s wait_for of the caller fires
list_tools(c, sess, listing) ==
    IF sess[c] /\ listing[c] = "ok"
    THEN [ok |-> TRUE, tools |-> ServerTools[c]]
    ELSE [ok |-> FALSE, tools |-> {}]

\* a call_tool that loses the session when wait_for cancels it
session_after_call_tool_dropping(sess, c, outcome) ==
    IF outcome = "timeout" THEN [sess EXCEPT ![c] = FALSE] ELSE sess

\* the session after call_tool ended with the given outcome: neither the
\* return, nor the cancellation by wait_for, nor MCPServerError touches _session
session_after_call_tool(sess, c, outcome) == sess

---------------------------------------------------------------------------
(* ToolExecutor (tools/executor.py) *)

RECURSIVE FirstClientWith(_, _, _, _)
FirstClientWith(i, tool_name, sess, listing) ==
    IF i > Len(ClientOrder) THEN "none"
    ELSE LET tools == list_tools(ClientOrder[i], sess, listing) IN
         IF tools.ok /\ tool_name \in tools.tools THEN ClientOrder[i]
         ELSE FirstClientWith(i + 1, tool_name, sess, listing)

\* a scan in which the client registered last wins a name collision
find_client_for_tool_last_wins(tool_name, sess, listing) ==
    LET found == {i \in DOMAIN ClientOrder :
                    /\ list_tools(ClientOrder[i], sess, listing).ok
                    /\ tool_name \in list_tools(ClientOrder[i], sess, listing).tools}
    IN  IF found = {} THEN "none"
        ELSE ClientOrder[CHOOSE i \in found : \A j \in found : j <= i]

find_client_for_tool(tool_name, sess, listing) == FirstClientWith(1, tool_name, sess, listing)

get_tool_timeout(tool_name) ==
    IF tool_name \in DOMAIN tool_timeouts THEN tool_timeouts[tool_name]
    ELSE default_timeout

\* asyncio.wait_for(client.call_tool(..), timeout): what the await ends with
call_outcome(reply, timeout) ==
    IF reply.after > timeout THEN "timeout"
    ELSE IF reply.kind = "raise" THEN "error"
    ELSE "success"

\* tool_id or f"tool_{tool_name}"
tool_use_id_of(tool_id, tool_name) ==
    IF tool_id # "" THEN tool_id ELSE "tool_" \o tool_name

\* a result record whose is_error flag is never set
tool_result_unflagged(tool_id, tool_name, outcome, timeout) ==
    [tool_use_id |-> tool_use_id_of(tool_id, tool_name),
     type |-> "tool_result",
     content |->
        CASE outcome = "success" -> [kind |-> "output", tool_name |-> tool_name, timeout |-> 0]
          [] outcome = "timeout" -> [kind |-> "timed out", tool_name |-> tool_name, timeout |-> timeout]
          [] OTHER -> [kind |-> "failed", tool_name |-> tool_name, timeout |-> 0],
     is_error |-> FALSE]

tool_result(tool_id, tool_name, outcome, timeout) ==
    [tool_use_id |-> tool_use_id_of(tool_id, tool_name),
     type |-> "tool_result",
     content |->
        CASE outcome = "success" -> [kind |-> "output", tool_name |-> tool_name, timeout |-> 0]
          [] outcome = "timeout" -> [kind |-> "timed out", tool_name |-> tool_name, timeout |-> timeout]
          [] OTHER -> [kind |-> "failed", tool_name |-> tool_name, timeout |-> 0],
     is_error |-> outcome # "success"]

NoResult == tool_result("none", "none", "success", 0)

\* an execute_tool that answers an unknown tool with an error result
execute_tool_never_raising(tool_name, tool_id, sess, listing, reply) ==
    LET client == find_client_for_tool(tool_name, sess, listing)
        timeout == get_tool_timeout(tool_name)
        outcome == IF client = "none" THEN "error" ELSE call_outcome(reply, timeout)
    IN  [raises |-> "none",
         result |-> tool_result(tool_id, tool_name, outcome, timeout),
         client |-> client,
         session |-> sess]

\* execute_tool: the exception it raises ("none" when it returns), the result
\* it returns, the client it used and the sessions afterwards
execute_tool(tool_name, tool_id, sess, listing, reply) ==
    LET client == find_client_for_tool(tool_name, sess, listing)
        timeout == get_tool_timeout(tool_name)
        outcome == call_outcome(reply, timeout)
    IN  IF client = "none"
        THEN [raises |-> "ToolNotFoundException", result |-> NoResult,
              client |-> "none", session |-> sess]
        ELSE [raises |-> "none",
              result |-> tool_result(tool_id, tool_name, outcome, timeout),
              client |-> client,
              session |-> session_after_call_tool(sess, client, outcome)]

\* execute_tools without lines 239-244: the whole batch is executed
uncapped_tool_calls(calls, cap) == calls

\* execute_tools, lines 235-244: the batch that will be executed
capped_tool_calls(calls, cap) ==
    IF Len(calls) > cap THEN SubSeq(calls, 1, cap) ELSE calls

\* results.insert(0, result)
append_result_in_front(res, r) == <<r>> \o res

\* results.append(result)
append_result(res, r) == Append(res, r)

---------------------------------------------------------------------------
(* ChatService.process_query (chat/service.py) *)

\* request.max_iterations or self.default_max_iterations
effective_max_iterations(req) ==
    IF req.max_iterations # 0 THEN req.max_iterations ELSE default_max_iterations

\* final_text_response = text_response, whatever the text
update_final_text_always(final, text) == text

\* lines 148-149: if text_response: final_text_response = text_response
update_final_text(final, text) == IF text # "" THEN text ELSE final

\* a handler that always finalizes
on_tool_execution_error_lenient(final) == "complete"

\* lines 203-209: what the handler of ToolExecutionError does
on_tool_execution_error(final) == IF final # "" THEN "complete" ELSE "raise"

\* lines 224-233
ChatResponse(final, conv, total) ==
    [response |-> IF final # "" THEN final ELSE NO_RESPONSE_GENERATED,
     iterations_used |-> conv.iteration_count,
     tools_called |-> total,
     conversation_state |-> conv,
     metadata |-> [max_iterations_reached |->
                      conv.iteration_count >= conv.max_iterations]]

\* the state before process_query (or execute_tools) is called
Idle ==
    /\ conversation = NoConversation
    /\ total_tools_called = 0
    /\ final_text_response = ""
    /\ llm_request = <<>>
    /\ llm_response = NoLLMResponse
    /\ llm_calls = 0
    /\ tool_calls = <<>>
    /\ results = <<>>
    /\ exec_log = <<>>
    /\ last_exec = NoExec
    /\ tool_results = <<>>
    /\ tool_result_message = NoMessage
    /\ tool_exception = "none"
    /\ raised = "none"
    /\ response = NoChatResponse
    /\ session = [c \in Clients |-> TRUE]
    /\ max_concurrent_tools \in CapChoices
    /\ mcp_client = [c \in Clients |-> ReadyClient]
    /\ discovery = NoDiscovery
    /\ retry = NoRetry
    /\ sampling = NoSampling
    /\ AuxIdle

\* no query, no batch: the variables of process_query and execute_tools
QueryIdle ==
    /\ request = [max_iterations |-> 1]
    /\ conversation = NoConversation
    /\ total_tools_called = 0
    /\ final_text_response = ""
    /\ llm_request = <<>>
    /\ llm_response = NoLLMResponse
    /\ llm_calls = 0
    /\ requested_calls = <<>>
    /\ tool_calls = <<>>
    /\ results = <<>>
    /\ exec_log = <<>>
    /\ last_exec = NoExec
    /\ tool_results = <<>>
    /\ tool_result_message = NoMessage
    /\ tool_exception = "none"
    /\ raised = "none"
    /\ response = NoChatResponse
    /\ max_concurrent_tools = MAX_TOOL_CALLS_PER_ITERATION

Init ==
    /\ pc = "start"
    /\ request \in [max_iterations : 1..MaxIterations]
    /\ requested_calls = <<>>
    /\ Idle

\* lines 103-120: the conversation is created and seeded with the query
ProcessQueryStart ==
    /\ pc = "start"
    /\ conversation' =
          add_message(
              [NoConversation EXCEPT !.max_iterations = effective_max_iterations(request)],
              "user", <<[type |-> "text", text |-> "query"]>>, [tool_results |-> FALSE])
    /\ total_tools_called' = 0
    /\ final_text_response' = ""
    /\ pc' = "loop"
    /\ UNCHANGED <<request, llm_request, llm_response, llm_calls, requested_calls,
                   tool_calls, results, exec_log, last_exec, tool_results,
                   tool_result_message, tool_exception, raised, response, session,
                   max_concurrent_tools>>
    /\ UNCHANGED service_vars

\* line 122, condition false: the loop is left
LoopExit ==
    /\ pc = "loop"
    /\ conversation.is_complete
    /\ pc' = "return"
    /\ UNCHANGED <<request, conversation, total_tools_called, final_text_response,
                   llm_request, llm_response, llm_calls, requested_calls,
                   tool_calls, results, exec_log, last_exec, tool_results,
                   tool_result_message, tool_exception, raised, response, session,
                   max_concurrent_tools>>
    /\ UNCHANGED service_vars

\* lines 122-123: the loop body is entered (the locals of the last iteration
\* are dead from here on and are reset)
LoopEnter ==
    /\ pc = "loop"
    /\ ~conversation.is_complete
    /\ conversation' = increment_iteration(conversation)
    /\ requested_calls' = <<>>
    /\ tool_calls' = <<>>
    /\ tool_results' = <<>>
    /\ tool_result_message' = NoMessage
    /\ pc' = "llm"
    /\ UNCHANGED <<request, total_tools_called, final_text_response, llm_request,
                   llm_response, llm_calls, results, exec_log, last_exec,
                   tool_exception, raised, response, session, max_concurrent_tools>>
    /\ UNCHANGED service_vars

\* lines 131-136 and 211-216: chat_with_retry raises; `except Exception` wraps it
CallLLMFails ==
    /\ pc = "llm"
    /\ llm_calls' = llm_calls + 1
    /\ llm_request' = get_messages_for_llm(conversation)
    /\ raised' = "MCPRouterException"
    /\ pc' = "raised"
    /\ UNCHANGED <<request, conversation, total_tools_called, final_text_response,
                   llm_response, requested_calls, tool_calls, results, exec_log,
                   last_exec, tool_results, tool_result_message, tool_exception,
                   response, session, max_concurrent_tools>>
    /\ UNCHANGED service_vars

\* lines 131-175 and 199-201: the model answers; up to the first await of
\* execute_tools, or to the end of the iteration when no tool is dispatched
ModelResponds(r) ==
    /\ pc = "llm"
    /\  LET conv1 == add_message(conversation, "assistant",
                         message_content_to_str(create_assistant_message(r).content),
                         [tool_results |-> FALSE])
            text == get_text(r)
            final1 == update_final_text(final_text_response, text)
        IN  /\ llm_calls' = llm_calls + 1
            /\ llm_request' = get_messages_for_llm(conversation)
            /\ llm_response' = r
            /\ IF r.stop_reason = "end_turn"
               THEN /\ final_text_response' = text
                    /\ conversation' = conv1
                    /\ pc' = "return"
                    /\ UNCHANGED <<requested_calls, tool_calls>>
               ELSE IF has_tool_calls(r)
               THEN /\ final_text_response' = final1
                    /\ conversation' = conv1
                    /\ requested_calls' = get_tool_calls(r)
                    /\ tool_calls' = capped_tool_calls(get_tool_calls(r), max_concurrent_tools)
                    /\ pc' = "tools"
               ELSE /\ final_text_response' = final1
                    /\ conversation' = [conv1 EXCEPT !.is_complete = TRUE]
                    /\ pc' = "loop"
                    /\ UNCHANGED <<requested_calls, tool_calls>>
    /\ UNCHANGED <<request, total_tools_called, results, exec_log, last_exec,
                   tool_results, tool_result_message, tool_exception, raised,
                   response, session, max_concurrent_tools>>
    /\ retry' = NoRetry
    /\ UNCHANGED <<mcp_client, discovery, sampling, aux_vars>>

CallLLMResponds == \E r \in Responses(conversation.iteration_count) : ModelResponds(r)

\* executor.py lines 250-265: one pass of the loop of execute_tools, i.e. one
\* execute_tool; ToolNotFoundException leaves execute_tools (its results are lost)
ExecuteTool ==
    /\ pc = "tools"
    /\ Len(results) < Len(tool_calls)
    /\ \E listing \in Listings, reply \in ProviderReplies :
        LET call == tool_calls[Len(results) + 1]
            ex == execute_tool(call.name, call.id, session, listing, reply)
        IN  IF ex.raises # "none"
            THEN /\ tool_exception' = ex.raises
                 /\ results' = <<>>
                 /\ last_exec' = [name |-> call.name, client |-> "none",
                                  reply |-> NoReply, listing |-> listing]
                 /\ pc' = "except"
                 /\ UNCHANGED <<exec_log, session>>
            ELSE /\ results' = append_result(results, ex.result)
                 /\ exec_log' = Append(exec_log, call.name)
                 /\ last_exec' = [name |-> call.name, client |-> ex.client,
                                  reply |-> reply, listing |-> listing]
                 /\ session' = ex.session
                 /\ pc' = "tools"
                 /\ UNCHANGED tool_exception
    /\ UNCHANGED <<request, conversation, total_tools_called, final_text_response,
                   llm_request, llm_response, llm_calls, requested_calls,
                   tool_calls, tool_results, tool_result_message, raised, response,
                   max_concurrent_tools>>
    /\ UNCHANGED service_vars

\* executor.py line 268 and service.py lines 166-197: execute_tools returns,
\* the tool-result message is appended, `continue`
ReturnToolResults ==
    /\ pc = "tools"
    /\ Len(results) = Len(tool_calls)
    /\ LET msg == create_tool_result_message(results) IN
        /\ tool_results' = results
        /\ total_tools_called' = total_tools_called + Len(requested_calls)
        /\ tool_result_message' = msg
        /\ conversation' = add_message(conversation, "user",
                               message_content_to_str(msg.content),
                               [tool_results |-> TRUE])
    /\ results' = <<>>
    /\ exec_log' = <<>>
    /\ last_exec' = NoExec
    /\ pc' = "loop"
    /\ UNCHANGED <<request, final_text_response, llm_request, llm_response,
                   llm_calls, requested_calls, tool_calls, tool_exception, raised,
                   response, session, max_concurrent_tools>>
    /\ UNCHANGED service_vars

\* lines 203-209
HandleToolExecutionError ==
    /\ pc = "except"
    /\ IF on_tool_execution_error(final_text_response) = "complete"
       THEN /\ conversation' = [conversation EXCEPT !.is_complete = TRUE]
            /\ pc' = "loop"
            /\ UNCHANGED raised
       ELSE /\ raised' = tool_exception
            /\ pc' = "raised"
            /\ UNCHANGED conversation
    /\ exec_log' = <<>>
    /\ last_exec' = NoExec
    /\ UNCHANGED <<request, total_tools_called, final_text_response, llm_request,
                   llm_response, llm_calls, requested_calls, tool_calls, results,
                   tool_results, tool_result_message, tool_exception, response,
                   session, max_concurrent_tools>>
    /\ UNCHANGED service_vars

\* lines 218-233
BuildResponse ==
    /\ pc = "return"
    /\ response' = ChatResponse(final_text_response, conversation, total_tools_called)
    /\ pc' = "done"
    /\ UNCHANGED <<request, conversation, total_tools_called, final_text_response,
                   llm_request, llm_response, llm_calls, requested_calls,
                   tool_calls, results, exec_log, last_exec, tool_results,
                   tool_result_message, tool_exception, raised, session,
                   max_concurrent_tools>>
    /\ UNCHANGED service_vars

Next ==
    \/ ProcessQueryStart
    \/ LoopExit
    \/ LoopEnter
    \/ CallLLMFails
    \/ CallLLMResponds
    \/ ExecuteTool
    \/ ReturnToolResults
    \/ HandleToolExecutionError
    \/ BuildResponse

Spec == Init /\ [][Next]_vars

---------------------------------------------------------------------------
(* The same query with a model that may leave the id of a tool call empty *)

CallLLMRespondsAnyId ==
    \E r \in ResponsesOver(conversation.iteration_count, ToolCallBlocksAnyId) :
        ModelResponds(r)

NextAnyId ==
    \/ ProcessQueryStart
    \/ LoopExit
    \/ LoopEnter
    \/ CallLLMFails
    \/ CallLLMRespondsAnyId
    \/ ExecuteTool
    \/ ReturnToolResults
    \/ HandleToolExecutionError
    \/ BuildResponse

SpecAnyId == Init /\ [][NextAnyId]_vars

---------------------------------------------------------------------------
(* ToolExecutor.execute_tools called on its own (tools/executor.py) *)

InitExecutor ==
    /\ pc = "exec_idle"
    /\ request = [max_iterations |-> 1]
    /\ requested_calls \in SeqsUpTo(ExecutorToolCalls, MaxCalls)
    /\ Idle

\* lines 235-248: up to the first await
StartExecuteTools ==
    /\ pc = "exec_idle"
    /\ tool_calls' = capped_tool_calls(requested_calls, max_concurrent_tools)
    /\ pc' = "tools"
    /\ UNCHANGED <<request, conversation, total_tools_called, final_text_response,
                   llm_request, llm_response, llm_calls, requested_calls, results,
                   exec_log, last_exec, tool_results, tool_result_message,
                   tool_exception, raised, response, session, max_concurrent_tools>>
    /\ UNCHANGED service_vars

\* lines 267-268
ExecuteToolsReturns ==
    /\ pc = "tools"
    /\ Len(results) = Len(tool_calls)
    /\ tool_results' = results
    /\ pc' = "exec_returned"
    /\ UNCHANGED <<request, conversation, total_tools_called, final_text_response,
                   llm_request, llm_response, llm_calls, requested_calls,
                   tool_calls, results, exec_log, last_exec, tool_result_message,
                   tool_exception, raised, response, session, max_concurrent_tools>>
    /\ UNCHANGED service_vars

\* the same executor, with the sessions it was left with, is handed another
\* batch (the frame of the finished call is gone)
ExecuteToolsAgain ==
    /\ pc \in {"exec_returned", "except"}
    /\ requested_calls' \in SeqsUpTo(ExecutorToolCalls, MaxCalls)
    /\ tool_calls' = <<>>
    /\ results' = <<>>
    /\ exec_log' = <<>>
    /\ last_exec' = NoExec
    /\ tool_results' = <<>>
    /\ tool_exception' = "none"
    /\ pc' = "exec_idle"
    /\ UNCHANGED <<request, conversation, total_tools_called, final_text_response,
                   llm_request, llm_response, llm_calls, tool_result_message,
                   raised, response, session, max_concurrent_tools>>
    /\ UNCHANGED service_vars

NextExecutor ==
    \/ StartExecuteTools
    \/ ExecuteTool
    \/ ExecuteToolsReturns
    \/ ExecuteToolsAgain

SpecExecutor == InitExecutor /\ [][NextExecutor]_vars

---------------------------------------------------------------------------
(* OpenRouterClient.chat_with_retry (specification SpecRetry): the model   *)
(* call of process_query with its attempts spelled out, and the same       *)
(* function called directly with any max_retries                           *)

\* how one call of chat ends (openrouter.py lines 138-165): with a response
\* or with one of its four exceptions; a provider error carries the HTTP
\* status in details.status_code, or none (0) for an unexpected error
ChatOutcomes ==
    {[kind |-> k, status |-> 0] :
        k \in {"ok", "LLMRateLimitError", "LLMTimeoutError", "LLMAuthenticationError"}}
    \cup {[kind |-> "LLMProviderError", status |-> st] : st \in {0, 400, 503}}

\* chat_with_retry that treats an authentication failure like a rate limit
retry_decision_retrying_auth(outcome, attempt, max_retries) ==
    IF outcome.kind = "ok" THEN "return"
    ELSE IF outcome.kind \in {"LLMRateLimitError", "LLMTimeoutError", "LLMAuthenticationError"}
    THEN (IF attempt < max_retries - 1 THEN "retry" ELSE "raise")
    ELSE IF attempt < max_retries - 1 /\ outcome.status \in RETRY_STATUS_CODES
    THEN "retry"
    ELSE "raise"

\* chat_with_retry that retries a provider error whatever its status code
retry_decision_retrying_any_status(outcome, attempt, max_retries) ==
    IF outcome.kind = "ok" THEN "return"
    ELSE IF outcome.kind = "LLMAuthenticationError" THEN "raise"
    ELSE IF attempt < max_retries - 1 THEN "retry"
    ELSE "raise"

\* chat_with_retry that gives up one attempt early
retry_decision_giving_up_early(outcome, attempt, max_retries) ==
    IF outcome.kind = "ok" THEN "return"
    ELSE IF outcome.kind \in {"LLMRateLimitError", "LLMTimeoutError"}
    THEN (IF attempt < max_retries - 2 THEN "retry" ELSE "raise")
    ELSE IF outcome.kind = "LLMAuthenticationError" THEN "raise"
    ELSE IF attempt < max_retries - 2 /\ outcome.status \in RETRY_STATUS_CODES
    THEN "retry"
    ELSE "raise"

\* openrouter.py lines 199-238: what the loop body does with the outcome of
\* attempt `attempt` (counted from 0)
retry_decision(outcome, attempt, max_retries) ==
    IF outcome.kind = "ok" THEN "return"
    ELSE IF outcome.kind \in {"LLMRateLimitError", "LLMTimeoutError"}
    THEN (IF attempt < max_retries - 1 THEN "retry" ELSE "raise")
    ELSE IF outcome.kind = "LLMAuthenticationError" THEN "raise"
    ELSE IF attempt < max_retries - 1 /\ outcome.status \in RETRY_STATUS_CODES
    THEN "retry"
    ELSE "raise"

\* openrouter.py lines 197-199 and 240-244: the loop is entered, or with no
\* attempt allowed the function raises at once
chat_with_retry_begin(max_retries) ==
    IF max_retries > 0
    THEN [NoRetry EXCEPT !.pc = "calling", !.max_retries = max_retries]
    ELSE [NoRetry EXCEPT !.pc = "raised", !.max_retries = max_retries,
                         !.exception = "LLMProviderError"]

\* variables the attempts of chat_with_retry leave alone
retry_frame ==
    <<pc, request, conversation, total_tools_called, final_text_response,
      llm_request, llm_response, llm_calls, requested_calls, tool_calls,
      results, exec_log, last_exec, tool_results, tool_result_message,
      tool_exception, raised, response, session, max_concurrent_tools,
      mcp_client, discovery, sampling, aux_vars>>

\* a query is about to start, or the provider is about to be called directly
InitRetry ==
    \/ Init
    \/ /\ pc = "provider"
       /\ QueryIdle
       /\ session = [c \in Clients |-> TRUE]
       /\ mcp_client = [c \in Clients |-> ReadyClient]
       /\ discovery = NoDiscovery
       /\ retry = NoRetry
       /\ sampling = NoSampling
       /\ AuxIdle

\* service.py lines 131-136 and 258-264: _call_llm calls chat_with_retry
CallLLM ==
    /\ pc = "llm"
    /\ retry.pc = "idle"
    /\ retry' = chat_with_retry_begin(call_llm_max_retries)
    /\ UNCHANGED retry_frame

\* chat_with_retry called with max_retries = n
ChatWithRetry ==
    /\ pc = "provider"
    /\ retry.pc = "idle"
    /\ \E n \in 0..MaxRetries : retry' = chat_with_retry_begin(n)
    /\ UNCHANGED retry_frame

\* openrouter.py lines 199-238: one attempt: chat is awaited, and its outcome
\* returns, raises, or starts the backoff sleep
Chat ==
    /\ retry.pc = "calling"
    /\ \E outcome \in ChatOutcomes :
          LET decision == retry_decision(outcome, retry.attempt, retry.max_retries)
              called == [retry EXCEPT !.calls = @ + 1, !.history = Append(@, outcome)]
          IN  retry' =
                  IF decision = "return"
                  THEN [called EXCEPT !.pc = "returned", !.response_of = called.calls]
                  ELSE IF decision = "retry"
                  THEN [called EXCEPT !.pc = "sleeping",
                                      !.delay = RETRY_BACKOFF_FACTOR ^ retry.attempt]
                  ELSE [called EXCEPT !.pc = "raised", !.exception = outcome.kind]
    /\ UNCHANGED retry_frame

\* openrouter.py lines 211-214: the sleep ends and the loop continues
BackoffEnds ==
    /\ retry.pc = "sleeping"
    /\ retry' = [retry EXCEPT !.pc = "calling", !.attempt = @ + 1, !.delay = 0]
    /\ UNCHANGED retry_frame

\* service.py lines 131-175: chat_with_retry returned to process_query
CallLLMReturns ==
    /\ retry.pc = "returned"
    /\ CallLLMResponds

\* service.py lines 211-216: chat_with_retry raised into process_query
CallLLMRaises ==
    /\ retry.pc = "raised"
    /\ CallLLMFails

\* the direct caller has its response or exception and may call again
ChatWithRetryAgain ==
    /\ pc = "provider"
    /\ retry.pc \in {"returned", "raised"}
    /\ retry' = NoRetry
    /\ UNCHANGED retry_frame

NextRetry ==
    \/ ProcessQueryStart
    \/ LoopExit
    \/ LoopEnter
    \/ CallLLM
    \/ ChatWithRetry
    \/ Chat
    \/ BackoffEnds
    \/ CallLLMReturns
    \/ CallLLMRaises
    \/ ChatWithRetryAgain
    \/ ExecuteTool
    \/ ReturnToolResults
    \/ HandleToolExecutionError
    \/ BuildResponse

SpecRetry == InitRetry /\ [][NextRetry]_vars

---------------------------------------------------------------------------
(* MCPClient.connect / cleanup and ToolExecutor.get_available_tools        *)
(* (specification SpecClients): clients are connected and cleaned up in    *)
(* any order and any number of times while capabilities are discovered     *)

\* how an awaited step of connect() or cleanup() ends
StepOutcomes == {"ok", "timeout", "error"}

\* client.py lines 141-155: the exception connect() raises for a failed step
connect_exception(outcome) ==
    IF outcome = "timeout" THEN "MCPTimeoutError" ELSE "MCPConnectionError"

\* variables that connect(), cleanup() and get_available_tools leave alone
query_vars ==
    <<pc, request, conversation, total_tools_called, final_text_response,
      llm_request, llm_response, llm_calls, requested_calls, tool_calls,
      results, exec_log, last_exec, tool_results, tool_result_message,
      tool_exception, raised, response, max_concurrent_tools, retry, sampling,
      aux_vars>>

\* clients as MCPClient.__init__ leaves them (lines 55-84)
InitClients ==
    /\ pc = "clients"
    /\ QueryIdle
    /\ session = [c \in Clients |-> FALSE]
    /\ mcp_client = [c \in Clients |-> NewClient]
    /\ discovery = NoDiscovery
    /\ retry = NoRetry
    /\ sampling = NoSampling
    /\ AuxIdle

\* connect() is called (lines 97-116, up to the first await)
ConnectStart(c) ==
    /\ mcp_client[c].pc = "idle"
    /\ mcp_client' = [mcp_client EXCEPT ![c].pc = "connect_transport", ![c].outcome = "none"]
    /\ UNCHANGED <<session, discovery, query_vars>>

\* lines 113-130: the stdio channel is established within 10 s and the
\* ClientSession is entered and stored in _session; or the wait_for fires, or
\* the launch fails (lines 141-155)
ConnectTransport(c) ==
    /\ mcp_client[c].pc = "connect_transport"
    /\ \E outcome \in StepOutcomes :
          IF outcome = "ok"
          THEN /\ session' = [session EXCEPT ![c] = TRUE]
               /\ mcp_client' = [mcp_client EXCEPT
                      ![c].exit_stack = @ \cup {"stdio_client", "ClientSession"},
                      ![c].pc = "connect_initialize"]
          ELSE /\ mcp_client' = [mcp_client EXCEPT
                      ![c].pc = "idle", ![c].outcome = connect_exception(outcome)]
               /\ UNCHANGED session
    /\ UNCHANGED <<discovery, query_vars>>

\* lines 132-139: session.initialize() completes within 15 s; or the wait_for
\* fires, or the handshake fails (lines 141-155)
ConnectInitialize(c) ==
    /\ mcp_client[c].pc = "connect_initialize"
    /\ \E outcome \in StepOutcomes :
          IF outcome = "ok"
          THEN mcp_client' = [mcp_client EXCEPT
                   ![c].pc = "idle", ![c].outcome = "returned",
                   ![c].connected_once = TRUE]
          ELSE mcp_client' = [mcp_client EXCEPT
                   ![c].pc = "idle", ![c].outcome = connect_exception(outcome)]
    /\ UNCHANGED <<session, discovery, query_vars>>

\* cleanup() that lets a teardown failure through
cleanup_outcome_propagating(outcome) ==
    IF outcome = "ok" THEN "returned" ELSE "Exception"

\* client.py lines 163-176: how cleanup() ends when aclose() ended with
\* `outcome`: the except handler only logs a warning
cleanup_outcome(outcome) ==
    IF outcome = "ok" THEN "returned" ELSE "returned_with_warning"

\* client.py lines 489-492
is_connected(c) == session[c]

\* cleanup() is called (lines 157-167): _session = None, then aclose() awaited
CleanupStart(c) ==
    /\ mcp_client[c].pc = "idle"
    /\ session' = [session EXCEPT ![c] = FALSE]
    /\ mcp_client' = [mcp_client EXCEPT ![c].pc = "cleanup_aclose", ![c].outcome = "none"]
    /\ UNCHANGED <<discovery, query_vars>>

\* lines 167-176: aclose() unwinds the stack; a failure is logged as a warning
CleanupClose(c) ==
    /\ mcp_client[c].pc = "cleanup_aclose"
    /\ \E outcome \in {"ok", "error"} :
          mcp_client' = [mcp_client EXCEPT
              ![c].exit_stack = {}, ![c].pc = "idle",
              ![c].outcome = cleanup_outcome(outcome),
              ![c].cleaned_once = TRUE]
    /\ UNCHANGED <<session, discovery, query_vars>>

\* get_available_tools that gives up at the first client that fails
discovered_or_nothing(tools, c, answer) ==
    IF answer.ok
    THEN tools \o [i \in DOMAIN ServerToolList[c] |-> [client |-> c, name |-> ServerToolList[c][i]]]
    ELSE <<>>

\* executor.py lines 85-109: the schemas after client c was asked
discovered(tools, c, answer) ==
    IF answer.ok
    THEN tools \o [i \in DOMAIN ServerToolList[c] |-> [client |-> c, name |-> ServerToolList[c][i]]]
    ELSE tools

\* executor.py lines 83-85
GetAvailableToolsStart ==
    /\ discovery.pc = "idle"
    /\ discovery' = [pc |-> "querying", index |-> 1, tools |-> <<>>, answered |-> <<>>]
    /\ UNCHANGED <<session, mcp_client, query_vars>>

\* executor.py lines 85-109: one pass of the loop; list_tools answers within
\* 10 s, or raises, or the wait_for fires
QueryClient ==
    /\ discovery.pc = "querying"
    /\ discovery.index <= Len(ClientOrder)
    /\ \E listing \in Listings :
          LET c == ClientOrder[discovery.index]
              answer == list_tools(c, session, listing)
          IN  discovery' = [discovery EXCEPT
                  !.index = @ + 1,
                  !.tools = discovered(@, c, answer),
                  !.answered = Append(@, answer.ok)]
    /\ UNCHANGED <<session, mcp_client, query_vars>>

\* executor.py lines 110-111
GetAvailableToolsReturns ==
    /\ discovery.pc = "querying"
    /\ discovery.index > Len(ClientOrder)
    /\ discovery' = [discovery EXCEPT !.pc = "returned"]
    /\ UNCHANGED <<session, mcp_client, query_vars>>

\* the result is consumed; get_available_tools can be called again
GetAvailableToolsAgain ==
    /\ discovery.pc = "returned"
    /\ discovery' = NoDiscovery
    /\ UNCHANGED <<session, mcp_client, query_vars>>

NextClients ==
    \/ \E c \in Clients : ConnectStart(c)
    \/ \E c \in Clients : ConnectTransport(c)
    \/ \E c \in Clients : ConnectInitialize(c)
    \/ \E c \in Clients : CleanupStart(c)
    \/ \E c \in Clients : CleanupClose(c)
    \/ GetAvailableToolsStart
    \/ QueryClient
    \/ GetAvailableToolsReturns
    \/ GetAvailableToolsAgain

SpecClients == InitClients /\ [][NextClients]_vars

---------------------------------------------------------------------------
(* MCPClient._sampling_callback (specification SpecSampling): providers    *)
(* send sampling requests to clients with and without an LLM provider      *)

\* OpenRouterClient.model of the bound provider
provider_model == "m"

\* how the call of chat made for a sampling request ends: a response without
\* tool calls (no tools are offered), empty or not, or one of the exceptions
SamplingOutcomes ==
    {[kind |-> "ok", status |-> 0, content |-> <<[type |-> "text", text |-> t]>>] :
        t \in {"", "S"}}
    \cup {[kind |-> o.kind, status |-> o.status, content |-> <<>>] :
            o \in {x \in ChatOutcomes : x.kind # "ok"}}

\* openrouter.py lines 144-165: str(e) of the exception chat raises
chat_error_message(outcome) ==
    IF outcome.kind = "LLMAuthenticationError" THEN "Invalid API key"
    ELSE IF outcome.kind = "LLMRateLimitError" THEN "Rate limit exceeded"
    ELSE IF outcome.kind = "LLMTimeoutError" THEN "Request to OpenRouter timed out"
    ELSE IF outcome.status = 0 THEN "Unexpected error"
    ELSE "OpenRouter API error | Details: {'status_code': " \o ToString(outcome.status) \o "}"

\* llm/models.py lines 206-231
HasText(item) == IsText(item) \/ "text" \in DOMAIN item

content_to_text(content) ==
    LET items == SelectSeq(content, HasText) IN
    JoinStripped([i \in DOMAIN items |-> block_text(items[i])])

\* client.py lines 409-419
no_provider_result ==
    [role |-> "assistant", model |-> "unknown",
     content |-> [type |-> "text", text |-> "Error: No LLM provider configured for sampling"]]

\* a callback that lets the failure of the model call through
sampling_answer_raising(outcome) ==
    IF outcome.kind = "ok"
    THEN [raised |-> "none",
          result |-> [role |-> "assistant", model |-> provider_model,
                      content |-> [type |-> "text", text |-> content_to_text(outcome.content)]]]
    ELSE [raised |-> outcome.kind, result |-> NoCreateMessageResult]

\* client.py lines 421-465: the answer of a client with a provider, after
\* chat ended with `outcome`
sampling_answer(outcome) ==
    IF outcome.kind = "ok"
    THEN [raised |-> "none",
          result |-> [role |-> "assistant", model |-> provider_model,
                      content |-> [type |-> "text", text |-> content_to_text(outcome.content)]]]
    ELSE [raised |-> "none",
          result |-> [role |-> "assistant", model |-> provider_model,
                      content |-> [type |-> "text",
                                   text |-> "Error during generation: " \o chat_error_message(outcome)]]]

\* client.py line 442, line 443: the defaults given to getattr
DefaultTemperature == "0.7"
DefaultMaxTokens == 1000

\* an optional value: None is <<>>, a value v is <<v>>
None == <<>>
Some(v) == <<v>>

\* the params of a sampling request as the callback receives them: an object
\* whose attributes temperature and maxTokens are set, are None, or are
\* missing from the object
SamplingParams ==
    {[messages |-> <<"m">>, temperature |-> Some("0.2"), maxTokens |-> Some(500)],
     [messages |-> <<"m">>, temperature |-> None, maxTokens |-> Some(500)],
     [messages |-> <<"m">>]}

\* getattr(object, name, default): the default only when the attribute is
\* missing
getattr(object, name, default) ==
    IF name \in DOMAIN object THEN object[name] ELSE Some(default)

\* client.py lines 440-444: the keyword arguments of the call of chat
chat_arguments(params) ==
    [temperature |-> getattr(params, "temperature", DefaultTemperature),
     max_tokens |-> getattr(params, "maxTokens", DefaultMaxTokens),
     called |-> TRUE]

\* variables the sampling handler leaves alone
sampling_frame ==
    <<pc, request, conversation, total_tools_called, final_text_response,
      llm_request, llm_response, llm_calls, requested_calls, tool_calls,
      results, exec_log, last_exec, tool_results, tool_result_message,
      tool_exception, raised, response, session, max_concurrent_tools,
      mcp_client, discovery, retry, aux_vars>>

\* connected clients, each constructed with or without an LLM provider
InitSampling ==
    /\ pc = "sampling"
    /\ QueryIdle
    /\ session = [c \in Clients |-> TRUE]
    /\ mcp_client = [c \in Clients |-> ReadyClient]
    /\ discovery = NoDiscovery
    /\ retry = NoRetry
    /\ AuxIdle
    /\ \E bound \in [Clients -> BOOLEAN] :
          sampling = [c \in Clients |-> [NoSampling[c] EXCEPT !.provider = bound[c]]]

\* client.py lines 390-446: a sampling request arrives; without a provider
\* it is answered at once, otherwise chat is awaited
SamplingRequest(c) ==
    /\ sampling[c].pc = "idle"
    /\ sampling[c].requests < MaxSamplingRequests
    /\ \E params \in SamplingParams :
          sampling' = [sampling EXCEPT ![c] =
              IF ~sampling[c].provider
              THEN [@ EXCEPT !.requests = @ + 1, !.answers = @ + 1,
                             !.outcome = "none", !.result = no_provider_result]
              ELSE [@ EXCEPT !.requests = @ + 1, !.pc = "calling", !.outcome = "none",
                             !.result = NoCreateMessageResult,
                             !.params = params, !.chat = chat_arguments(params)]]
    /\ UNCHANGED sampling_frame

\* a callback that sends a request of its own over the client's session and
\* waits for the provider's answer, behind the outbound call in flight
callback_reentering_session(c) == outbound[c].pc = "idle"

\* client.py lines 421-446: what the callback waits for besides the model
\* provider: nothing; it never calls _get_session nor any outbound method
callback_may_proceed(c) == TRUE

\* client.py lines 441-465: chat returns or raises, and the callback ends
SamplingChat(c) ==
    /\ sampling[c].pc = "calling"
    /\ callback_may_proceed(c)
    /\ \E outcome \in SamplingOutcomes :
          LET answer == sampling_answer(outcome) IN
          sampling' = [sampling EXCEPT ![c] =
              [@ EXCEPT !.pc = "idle", !.outcome = outcome.kind,
                        !.answers = IF answer.raised = "none" THEN @ + 1 ELSE @,
                        !.result = answer.result, !.raised = answer.raised,
                        !.params = NoParams, !.chat = NoChatArguments]]
    /\ UNCHANGED sampling_frame

NextSampling ==
    \/ \E c \in Clients : SamplingRequest(c)
    \/ \E c \in Clients : SamplingChat(c)

SpecSampling == InitSampling /\ [][NextSampling]_vars

---------------------------------------------------------------------------
(* ToolManager.get_all_tools and invalidate_cache (specification           *)
(* SpecCache): the capability cache while clients are connected and        *)
(* cleaned up                                                              *)

\* what get_all_tools and invalidate_cache leave alone
cache_frame ==
    <<pc, request, conversation, total_tools_called, final_text_response,
      llm_request, llm_response, llm_calls, requested_calls, tool_calls,
      results, exec_log, last_exec, tool_results, tool_result_message,
      tool_exception, raised, response, session, max_concurrent_tools,
      mcp_client, retry, sampling, outbound, io, resources, queries>>

\* manager.py line 55: the cache is used
cache_hit(m, use_cache) == use_cache /\ m.cache_valid /\ m.tools_cache # <<>>

\* manager.py lines 45-60: get_all_tools is called; it returns the cache or
\* awaits get_available_tools
GetAllTools ==
    /\ manager.pc = "idle"
    /\ discovery.pc = "idle"
    /\ \E use_cache \in BOOLEAN :
          IF cache_hit(manager, use_cache)
          THEN /\ manager' = [manager EXCEPT !.pc = "returned",
                                  !.returned = manager.tools_cache, !.from_cache = TRUE]
               /\ UNCHANGED discovery
          ELSE /\ manager' = [manager EXCEPT !.pc = "fetching", !.returned = <<>>,
                                  !.from_cache = FALSE]
               /\ discovery' = [pc |-> "querying", index |-> 1, tools |-> <<>>,
                                answered |-> <<>>]
    /\ UNCHANGED cache_frame

\* manager.py lines 60-66: get_available_tools returned; the cache is
\* updated and the tools are returned
GetAllToolsStores ==
    /\ manager.pc = "fetching"
    /\ discovery.pc = "querying"
    /\ discovery.index > Len(ClientOrder)
    /\ manager' = [manager EXCEPT !.tools_cache = discovery.tools, !.cache_valid = TRUE,
                       !.pc = "returned", !.returned = discovery.tools]
    /\ discovery' = NoDiscovery
    /\ UNCHANGED cache_frame

\* the caller has its tools; get_all_tools can be called again
GetAllToolsAgain ==
    /\ manager.pc = "returned"
    /\ manager' = [manager EXCEPT !.pc = "idle", !.returned = <<>>, !.from_cache = FALSE]
    /\ UNCHANGED <<discovery, cache_frame>>

\* manager.py lines 68-71
InvalidateCache ==
    /\ manager.cache_valid
    /\ manager' = [manager EXCEPT !.cache_valid = FALSE]
    /\ UNCHANGED <<discovery, cache_frame>>

NextCache ==
    \/ \E c \in Clients : ConnectStart(c)
    \/ \E c \in Clients : ConnectTransport(c)
    \/ \E c \in Clients : ConnectInitialize(c)
    \/ \E c \in Clients : CleanupStart(c)
    \/ \E c \in Clients : CleanupClose(c)
    \/ GetAllTools
    \/ QueryClient
    \/ GetAllToolsStores
    \/ GetAllToolsAgain
    \/ InvalidateCache

SpecCache == InitClients /\ [][NextCache]_vars

---------------------------------------------------------------------------
(* ChatService._process_resources (specification SpecResources): the part  *)
(* of process_query before the capability discovery.  A query is a         *)
(* sequence of tokens separated by blanks: the word "w" or a reference     *)
(* "@<id>"; a text under construction is a sequence of pieces: tokens,     *)
(* delimited blocks, and the characters a replacement left behind.         *)

\* resource ids and their characters: "a" is a prefix of "ab"
ResourceIds == {"a", "ab"}

IdChars == [a |-> <<"a">>, ab |-> <<"a", "b">>]

QueryTokens ==
    {[kind |-> "word", id |-> "w"]} \cup {[kind |-> "ref", id |-> i] : i \in ResourceIds}

Queries == SeqsUpTo(QueryTokens, MaxTokens)

\* how a read_resource of a provider ends: with the resource, with no
\* contents (None), with an exception, or never
ReadOutcomes == {"content", "empty", "raise", "never"}

\* service.py lines 326-333: _load_resource awaits client.read_resource as
\* it is, and the ClientSession is created without a read timeout
\* (client.py 124-130): the read is not bounded
read_resource_bounded == FALSE

\* chat/models.py lines 166-180: re.findall(r"@(\S+)", query)
parse_from_query(query) ==
    LET refs == SelectSeq(query, LAMBDA t : t.kind = "ref")
    IN  [i \in DOMAIN refs |-> [resource_id |-> refs[i].id, raw_reference |-> "@" \o refs[i].id]]

\* str(content) of what read_resource returned (service.py line 330)
resource_content(id, outcome) ==
    IF outcome = "content" THEN "content of " \o id ELSE "None"

\* service.py line 300
not_found_placeholder(id) == "[Resource " \o id \o " not found]"

\* service.py line 309: the delimited block
replacement(id, content) == [kind |-> "block", id |-> id, content |-> content]

IsPrefix(p, q) == Len(p) <= Len(q) /\ SubSeq(q, 1, Len(p)) = p

\* service.py line 310: processed_query.replace(ref.raw_reference, replacement):
\* every occurrence of "@<id>" is replaced, also at the start of a longer
\* token, whose remaining characters stay behind the block
str_replace(text, id, block) ==
    [i \in DOMAIN text |->
        IF text[i].kind = "ref" /\ IsPrefix(IdChars[id], IdChars[text[i].id])
        THEN IF text[i].id = id
             THEN <<block>>
             ELSE <<block, [kind |-> "rest",
                            id |-> SubSeq(IdChars[text[i].id], Len(IdChars[id]) + 1,
                                          Len(IdChars[text[i].id]))]>>
        ELSE <<text[i]>>]

RECURSIVE Flatten(_)
Flatten(parts) == IF parts = <<>> THEN <<>> ELSE Head(parts) \o Flatten(Tail(parts))

\* service.py lines 306-312: the replacement loop
RECURSIVE replace_references(_, _, _)
replace_references(text, refs, loaded) ==
    IF refs = <<>> THEN text
    ELSE LET id == Head(refs).resource_id
         IN  replace_references(
                 Flatten(str_replace(text, id, replacement(id, loaded[id]))),
                 Tail(refs), loaded)

\* what the resource resolution leaves alone
resources_frame ==
    <<pc, request, total_tools_called, final_text_response,
      llm_request, llm_response, llm_calls, requested_calls, tool_calls,
      results, exec_log, last_exec, tool_results, tool_result_message,
      tool_exception, raised, response, session, max_concurrent_tools,
      mcp_client, discovery, retry, sampling, outbound, manager, io, queries>>

\* process_query is called with some query; clients are connected or not
InitResources ==
    /\ pc = "resources"
    /\ QueryIdle
    /\ session \in [Clients -> BOOLEAN]
    /\ mcp_client = [c \in Clients |-> ReadyClient]
    /\ discovery = NoDiscovery
    /\ retry = NoRetry
    /\ sampling = NoSampling
    /\ outbound = NoOutbound
    /\ manager = NoManager
    /\ io = NoIO
    /\ queries = NoQueries
    /\ \E q \in Queries : resources = [NoResources EXCEPT !.query = q]

\* service.py lines 306-312 and 109-115: the references are replaced, the
\* user message is added, and get_all_tools is awaited
resources_done(res, conv) ==
    LET processed == replace_references(res.query, res.refs, res.loaded)
    IN  [res |-> [res EXCEPT !.pc = "done", !.processed = processed],
         conv |-> add_message(conv, "user", processed, [tool_results |-> FALSE])]

\* service.py lines 103-109 and 284-296: the references are parsed; without
\* any the query is used as it is, otherwise the first resource is read
ProcessResourcesStart ==
    /\ resources.pc = "idle"
    /\ LET conv == [NoConversation EXCEPT !.max_iterations = effective_max_iterations(request)]
           refs == parse_from_query(resources.query)
       IN  IF refs = <<>>
           THEN /\ resources' = [resources EXCEPT !.pc = "done", !.processed = resources.query]
                /\ conversation' = add_message(conv, "user", resources.query,
                                                [tool_results |-> FALSE])
           ELSE /\ resources' = [resources EXCEPT !.pc = "loading", !.refs = refs,
                        !.loaded = [i \in ResourceIds |-> "unset"]]
                /\ conversation' = conv
    /\ UNCHANGED resources_frame

\* service.py lines 294-303 and 326-340: one read_resource of _load_resource
\* ends (or never does); the next client or the next reference follows, and
\* after the last reference the rest of _process_resources
ReadResource ==
    /\ resources.pc = "loading"
    /\ \E outcome \in ReadOutcomes :
        LET id == resources.refs[resources.index].resource_id
            c == ClientOrder[resources.client_index]
            answered == is_connected(c) /\ outcome \in {"content", "empty"}
            hangs == is_connected(c) /\ outcome = "never" /\ ~read_resource_bounded
            last_client == resources.client_index = Len(ClientOrder)
            stored == [resources EXCEPT
                          !.loaded[id] = IF answered THEN resource_content(id, outcome)
                                         ELSE not_found_placeholder(id),
                          !.index = @ + 1, !.client_index = 1]
        IN  IF hangs
            THEN /\ resources' = [resources EXCEPT !.pc = "blocked"]
                 /\ UNCHANGED conversation
            ELSE IF ~answered /\ ~last_client
            THEN /\ resources' = [resources EXCEPT !.client_index = @ + 1]
                 /\ UNCHANGED conversation
            ELSE IF stored.index <= Len(resources.refs)
            THEN /\ resources' = stored
                 /\ UNCHANGED conversation
            ELSE /\ resources' = resources_done(stored, conversation).res
                 /\ conversation' = resources_done(stored, conversation).conv
    /\ UNCHANGED resources_frame

NextResources ==
    \/ ProcessResourcesStart
    \/ ReadResource

SpecResources == InitResources /\ [][NextResources]_vars

---------------------------------------------------------------------------
(* The two flows of one connection (specification SpecDuplex): outbound    *)
(* calls of the client and sampling requests of the provider, interleaved. *)
(* A provider that has asked for a sample answers the outbound call only   *)
(* after it got the sample.                                                *)

\* the outbound methods of MCPClient that await the provider
OutboundOps == {"call_tool", "list_tools", "read_resource"}

\* what the outbound calls leave alone
outbound_frame ==
    <<pc, request, conversation, total_tools_called, final_text_response,
      llm_request, llm_response, llm_calls, requested_calls, tool_calls,
      results, exec_log, last_exec, tool_results, tool_result_message,
      tool_exception, raised, response, session, max_concurrent_tools,
      mcp_client, discovery, retry, sampling, manager, io, resources, queries>>

\* client.py lines 203-261 and 342-384: _get_session, then the request is
\* sent and its response awaited
OutboundCall(c) ==
    /\ outbound[c].pc = "idle"
    /\ is_connected(c)
    /\ \E op \in OutboundOps :
          outbound' = [outbound EXCEPT ![c] = [pc |-> "awaiting", op |-> op]]
    /\ UNCHANGED outbound_frame

\* the provider answers the outbound call, with a result or an error; it
\* does so only when it is not itself waiting for a sample
OutboundAnswer(c) ==
    /\ outbound[c].pc = "awaiting"
    /\ sampling[c].pc = "idle"
    /\ outbound' = [outbound EXCEPT ![c] = [pc |-> "idle", op |-> "none"]]
    /\ UNCHANGED outbound_frame

NextDuplex ==
    \/ \E c \in Clients : OutboundCall(c)
    \/ \E c \in Clients : OutboundAnswer(c)
    \/ \E c \in Clients : SamplingRequest(c)
    \/ \E c \in Clients : SamplingChat(c)

\* the model provider answers or fails in finite time, and so does a
\* provider that is not waiting for a sample
SpecDuplex ==
    /\ InitSampling
    /\ [][NextDuplex]_vars
    /\ \A c \in Clients : WF_vars(SamplingChat(c)) /\ WF_vars(OutboundAnswer(c))

---------------------------------------------------------------------------
(* MessageConverter and the content helpers as functions of their input    *)
(* (specification SpecConverter): one call is made on some input, and the  *)
(* value it returns or the exception it raises is recorded in io.          *)

MaxMessages == 2

MaxBlocks == 2

\* what dict.get answers for a missing key, and a JSON null
NoneValue == "<None>"

\* message_converter.py line 388
ValidRoles == {"user", "assistant", "system"}

MessageRoles == ValidRoles \cup {NoneValue, "", "tool"}

\* a Message instance has one of the three roles (llm/models.py line 59); a
\* dict has any role or none; anything else is not a message
InternalMessages ==
    {[kind |-> "Message", role |-> r, content |-> "hello"] : r \in ValidRoles}
    \cup {[kind |-> "dict", role |-> r, content |-> c] :
            r \in MessageRoles, c \in {"hello", NoneValue}}
    \cup {[kind |-> "other", role |-> NoneValue, content |-> NoneValue]}

\* message_converter.py lines 308-362, for a string or a missing content
normalize_content(content) == IF content = NoneValue THEN "None" ELSE content

Raises(kind) == [raised |-> kind, value |-> <<>>]

Returns(v) == [raised |-> "none", value |-> v]

\* `not role`
Falsy(v) == v \in {NoneValue, ""}

\* message_converter.py lines 107-139
to_openrouter_message(message) ==
    IF message.kind = "Message"
    THEN Returns([role |-> message.role, content |-> normalize_content(message.content)])
    ELSE IF message.kind = "dict"
    THEN IF Falsy(message.role)
         THEN Raises("MessageFormatError")
         ELSE Returns([role |-> message.role,
                       content |-> normalize_content(message.content)])
    ELSE Raises("MessageFormatError")

\* message_converter.py lines 141-154: the first message that raises ends
\* the comprehension
to_openrouter_messages(messages) ==
    IF \E i \in DOMAIN messages : to_openrouter_message(messages[i]).raised # "none"
    THEN Raises("MessageFormatError")
    ELSE Returns([i \in DOMAIN messages |-> to_openrouter_message(messages[i]).value])

\* message_converter.py lines 368-394
validate_message(message) ==
    IF message.kind # "dict" THEN Raises("MessageFormatError")
    ELSE IF message.role = NoneValue THEN Raises("MessageFormatError")
    ELSE IF message.role \notin ValidRoles THEN Raises("MessageFormatError")
    ELSE IF message.content = NoneValue THEN Raises("MessageFormatError")
    ELSE Returns(TRUE)

---------------------------------------------------------------------------
(* Wire responses of the provider *)

WireTexts == {"", TextOf(1)}

WireToolUses ==
    {[type |-> "tool_use", id |-> "a", name |-> "lookup", input |-> "{q}"],
     [type |-> "tool_use", id |-> "b", name |-> "lookup", input |-> "{}"]}

\* a block that is none of the three content models
UnknownBlock == [type |-> "image"]

WireBlocks ==
    {[type |-> "text", text |-> t] : t \in WireTexts}
    \cup WireToolUses \cup {UnknownBlock}

\* the content of the message: a string, a list of blocks, or null
WireContents ==
    {[kind |-> "str", text |-> t, blocks |-> <<>>] : t \in WireTexts}
    \cup {[kind |-> "list", text |-> "", blocks |-> b] : b \in SeqsUpTo(WireBlocks, MaxBlocks)}
    \cup {[kind |-> "null", text |-> "", blocks |-> <<>>]}

\* function.arguments is a JSON text: of an object, of something else, or
\* not JSON at all
WireToolCalls ==
    {[id |-> "c", function |-> [name |-> "lookup",
                                arguments |-> [json |-> j, value |-> "{q}"]]] :
        j \in {"object", "array", "invalid"}}
    \cup {[id |-> "d", function |-> [name |-> "lookup",
                                     arguments |-> [json |-> "object", value |-> "{}"]]]}

\* finish_reason of a choice as the provider sends it, or none
FinishReasons == {"stop", "tool_calls", "length", NoneValue}

WireResponses ==
    {[kind |-> "other", choices |-> <<>>]}
    \cup {[kind |-> "dict", choices |-> <<>>]}
    \cup {[kind |-> "dict",
           choices |-> <<[message |-> [content |-> c, tool_calls |-> tc],
                          finish_reason |-> f]>>] :
            c \in WireContents, tc \in SeqsUpTo(WireToolCalls, MaxCalls),
            f \in FinishReasons}

\* message_converter.py lines 179-185
content_blocks_of(content) ==
    IF content.kind = "str" THEN <<[type |-> "text", text |-> content.text]>>
    ELSE IF content.kind = "list" THEN content.blocks
    ELSE <<[type |-> "text", text |-> "None"]>>

\* json.loads of the arguments without the except clause of lines 200-201
loaded_arguments_unguarded(arguments) == arguments

\* lines 195-201: json.loads of the arguments; what is not JSON becomes {}
loaded_arguments(arguments) ==
    IF arguments.json = "invalid" THEN [json |-> "object", value |-> "{}"]
    ELSE arguments

\* lines 190-209 with the arguments left as the provider sent them
tool_use_block_unparsed(tool_call) ==
    [type |-> "tool_use", id |-> tool_call.id, name |-> tool_call.function.name,
     input |-> "arguments"]

\* lines 190-209: the block appended for one sibling tool call
tool_use_block(tool_call) ==
    [type |-> "tool_use", id |-> tool_call.id, name |-> tool_call.function.name,
     input |-> loaded_arguments(tool_call.function.arguments).value]

\* llm/models.py lines 23-48 and 118: a block LLMResponse accepts is one of
\* the content models; the input of a tool_use block is a dict
ValidBlock(b) == b.type \in {"text", "tool_use"}

ValidArguments(arguments) == loaded_arguments(arguments).json = "object"

\* a conversion that hands the finish_reason on as it came
stop_reason_unchanged(finish_reason) == finish_reason

\* lines 214-217: first_choice.get("finish_reason"), 'tool_calls' rewritten
stop_reason_of(finish_reason) ==
    IF finish_reason = "tool_calls" THEN "tool_use" ELSE finish_reason

\* lines 171-229, the body of the try
openrouter_response_body(response_data) ==
    IF response_data.kind # "dict" THEN Raises("AttributeError")
    ELSE IF response_data.choices = <<>> THEN Raises("MessageFormatError")
    ELSE
        LET first_choice == response_data.choices[1]
            message == first_choice.message
            appended == [i \in DOMAIN message.tool_calls |->
                            tool_use_block(message.tool_calls[i])]
            content_blocks == content_blocks_of(message.content) \o appended
            stop_reason == stop_reason_of(first_choice.finish_reason)
        IN  IF /\ \A i \in DOMAIN content_blocks : ValidBlock(content_blocks[i])
               /\ \A i \in DOMAIN message.tool_calls :
                      ValidArguments(message.tool_calls[i].function.arguments)
            THEN Returns([content |-> content_blocks, stop_reason |-> stop_reason])
            ELSE Raises("ValidationError")

\* lines 179-209: the object response_data after the call. A content that is
\* a list is not copied (line 183), so the blocks of the sibling tool calls
\* are appended (line 204) to the list the caller holds
response_data_after(response_data) ==
    IF response_data.kind # "dict" \/ response_data.choices = <<>> THEN response_data
    ELSE LET message == response_data.choices[1].message IN
         IF message.content.kind # "list" THEN response_data
         ELSE [response_data EXCEPT !.choices[1].message.content.blocks =
                  @ \o [i \in DOMAIN message.tool_calls |->
                            tool_use_block(message.tool_calls[i])]]

\* from_openrouter_response without its except clause
from_openrouter_response_unguarded(response_data) ==
    openrouter_response_body(response_data)

\* lines 156-232: whatever the body raises is raised as MessageFormatError
from_openrouter_response(response_data) ==
    IF openrouter_response_body(response_data).raised = "none"
    THEN openrouter_response_body(response_data)
    ELSE Raises("MessageFormatError")

---------------------------------------------------------------------------
(* Content-block lists handed to extract_text_from_content: the three      *)
(* content models, and dicts of any shape                                  *)

ContentTexts == {"", TextOf(1), TextOf(2)}

ContentItems ==
    {[type |-> "text", text |-> t] : t \in ContentTexts}
    \cup {[type |-> "tool_use", id |-> "a", name |-> "lookup", input |-> "{}"],
          [type |-> "tool_result", tool_use_id |-> "a", content |-> "ok",
           is_error |-> FALSE],
          [type |-> "note", text |-> TextOf(3)]}

ContentLists == SeqsUpTo(ContentItems, MaxBlocks)

\* message_converter.py lines 51-78
extract_text_from_content(content) == Returns(content_to_text(content))

---------------------------------------------------------------------------
(* The calls *)

ConverterCalls ==
    {[op |-> "to_openrouter_messages", input |-> m] :
        m \in SeqsUpTo(InternalMessages, MaxMessages)}
    \cup {[op |-> "validate_message", input |-> m] : m \in InternalMessages}
    \cup {[op |-> "from_openrouter_response", input |-> d] : d \in WireResponses}
    \cup {[op |-> "extract_text_from_content", input |-> c] : c \in ContentLists}

converter_frame ==
    <<pc, request, conversation, total_tools_called, final_text_response,
      llm_request, llm_response, llm_calls, requested_calls, tool_calls,
      results, exec_log, last_exec, tool_results, tool_result_message,
      tool_exception, raised, response, session, max_concurrent_tools,
      mcp_client, discovery, retry, sampling, outbound, manager, resources,
      queries>>

InitConverter ==
    /\ pc = "converter"
    /\ QueryIdle
    /\ session = [c \in Clients |-> TRUE]
    /\ mcp_client = [c \in Clients |-> ReadyClient]
    /\ discovery = NoDiscovery
    /\ retry = NoRetry
    /\ sampling = NoSampling
    /\ outbound = NoOutbound
    /\ manager = NoManager
    /\ resources = NoResources
    /\ queries = NoQueries
    /\ \E call \in ConverterCalls :
          io = [NoIO EXCEPT !.op = call.op, !.input = call.input,
                            !.argument = call.input, !.pc = "called"]

\* the call returns or raises
Completed(result) ==
    io' = [io EXCEPT !.pc = IF result.raised = "none" THEN "returned" ELSE "raised",
                     !.output = result.value,
                     !.raised = result.raised]

ToOpenRouterMessages ==
    /\ io.pc = "called"
    /\ io.op = "to_openrouter_messages"
    /\ Completed(to_openrouter_messages(io.input))
    /\ UNCHANGED converter_frame

ValidateMessage ==
    /\ io.pc = "called"
    /\ io.op = "validate_message"
    /\ Completed(validate_message(io.input))
    /\ UNCHANGED converter_frame

\* the call returns or raises, and leaves the caller's object as
\* response_data_after describes
FromOpenRouterResponse ==
    /\ io.pc = "called"
    /\ io.op = "from_openrouter_response"
    /\ LET result == from_openrouter_response(io.input) IN
       io' = [io EXCEPT !.pc = IF result.raised = "none" THEN "returned" ELSE "raised",
                        !.output = result.value,
                        !.raised = result.raised,
                        !.argument = response_data_after(io.input)]
    /\ UNCHANGED converter_frame

\* the caller hands the same object to from_openrouter_response once more
FromOpenRouterResponseAgain ==
    /\ io.pc \in {"returned", "read"}
    /\ io.op = "from_openrouter_response"
    /\ io.again = NoSecondCall
    /\ io' = [io EXCEPT !.again = from_openrouter_response(io.argument),
                        !.argument = response_data_after(io.argument)]
    /\ UNCHANGED converter_frame

ExtractTextFromContent ==
    /\ io.pc = "called"
    /\ io.op = "extract_text_from_content"
    /\ Completed(extract_text_from_content(io.input))
    /\ UNCHANGED converter_frame

\* llm/models.py lines 123-178: the caller reads the text and the tool calls
\* of the response it got
ReadResponse ==
    /\ io.pc = "returned"
    /\ io.op = "from_openrouter_response"
    /\ io' = [io EXCEPT !.pc = "read",
                        !.output = [response |-> io.output,
                                    text |-> get_text(io.output),
                                    tool_calls |-> get_tool_calls(io.output)]]
    /\ UNCHANGED converter_frame

NextConverter ==
    \/ ToOpenRouterMessages
    \/ ValidateMessage
    \/ FromOpenRouterResponse
    \/ ExtractTextFromContent
    \/ ReadResponse
    \/ FromOpenRouterResponseAgain

SpecConverter == InitConverter /\ [][NextConverter]_vars

---------------------------------------------------------------------------
(* OpenRouterClient.chat_with_retry called with its arguments spelled out  *)
(* (specification SpecProvider): what chat does with the messages and the  *)
(* tools before it sends the request                                       *)

\* the tools argument: none, ToolSchema objects, or the dicts that
\* ToolExecutor.get_available_tools builds (executor.py lines 92-101)
ToolsArguments == {"none", "ToolSchema", "dict"}

\* the messages argument: a well-formed message, or a dict without a role
MessagesArguments ==
    {<<[kind |-> "dict", role |-> "user", content |-> "hello"]>>,
     <<[kind |-> "dict", role |-> NoneValue, content |-> "hello"]>>}

ChatArguments == [messages : MessagesArguments, tools : ToolsArguments]

\* openrouter.py lines 119-165: how one call of chat may end.  The messages
\* are converted (line 120) and the tools formatted (line 131, tool.name,
\* lines 259-266) before the try statement, so what they raise leaves chat
\* as it is; past them the request is sent
chat_outcomes(arguments) ==
    IF to_openrouter_messages(arguments.messages).raised # "none"
    THEN {[kind |-> to_openrouter_messages(arguments.messages).raised, status |-> 0]}
    ELSE IF arguments.tools = "dict"
    THEN {[kind |-> "AttributeError", status |-> 0]}
    ELSE ChatOutcomes

\* shared/exceptions.py lines 30-51
LLMProviderErrors ==
    {"LLMProviderError", "LLMTimeoutError", "LLMRateLimitError", "LLMAuthenticationError"}

\* openrouter.py lines 199-244: the except clauses of the loop catch the
\* LLMProviderError family only; any other exception leaves chat_with_retry
\* at once
attempt_decision(outcome, attempt, max_retries) ==
    IF outcome.kind \in LLMProviderErrors \cup {"ok"}
    THEN retry_decision(outcome, attempt, max_retries)
    ELSE "raise"

provider_frame ==
    <<pc, request, conversation, total_tools_called, final_text_response,
      llm_request, llm_response, llm_calls, requested_calls, tool_calls,
      results, exec_log, last_exec, tool_results, tool_result_message,
      tool_exception, raised, response, session, max_concurrent_tools,
      mcp_client, discovery, sampling, aux_vars>>

InitProvider ==
    /\ pc = "provider"
    /\ QueryIdle
    /\ session = [c \in Clients |-> TRUE]
    /\ mcp_client = [c \in Clients |-> ReadyClient]
    /\ discovery = NoDiscovery
    /\ retry = NoRetry
    /\ sampling = NoSampling
    /\ outbound = NoOutbound
    /\ manager = NoManager
    /\ resources = NoResources
    /\ queries = NoQueries
    /\ \E arguments \in ChatArguments :
          io = [NoIO EXCEPT !.op = "chat_with_retry", !.input = arguments]

\* openrouter.py lines 199-238: one attempt on the arguments of the call
ChatAttempt ==
    /\ retry.pc = "calling"
    /\ io.op = "chat_with_retry"
    /\ \E outcome \in chat_outcomes(io.input) :
          LET decision == attempt_decision(outcome, retry.attempt, retry.max_retries)
              called == [retry EXCEPT !.calls = @ + 1, !.history = Append(@, outcome)]
          IN  retry' =
                  IF decision = "return"
                  THEN [called EXCEPT !.pc = "returned", !.response_of = called.calls]
                  ELSE IF decision = "retry"
                  THEN [called EXCEPT !.pc = "sleeping",
                                      !.delay = RETRY_BACKOFF_FACTOR ^ retry.attempt]
                  ELSE [called EXCEPT !.pc = "raised", !.exception = outcome.kind]
    /\ UNCHANGED provider_frame

NextProvider ==
    \/ ChatWithRetry
    \/ ChatAttempt
    \/ BackoffEnds
    \/ ChatWithRetryAgain

SpecProvider == InitProvider /\ [][NextProvider]_vars

---------------------------------------------------------------------------
(* Two process_query calls interleaved on one ChatService (specification   *)
(* SpecInterleaved).  ConversationState, total_tools_called and            *)
(* final_text_response are locals of each call (service.py lines 103-120); *)
(* the ToolManager with its cache, the executor and the sessions of the    *)
(* clients are shared                                                      *)

\* the requests of caller q
CallerRequests(q) ==
    {[max_iterations |-> n, query |-> "query " \o ToString(q)] : n \in {1, 2}}

\* the responses the model may give to caller q in its iteration i: a final
\* text, a text with a call of lookup, a call of a tool that no provider
\* exposes, and an empty text
CallerResponses(q, i) ==
    LET text == [type |-> "text", text |-> TextOf(10 * q + i)]
        empty == [type |-> "text", text |-> ""]
    IN  { [content |-> <<text>>, stop_reason |-> "end_turn"],
          [content |-> <<text, [type |-> "tool_use", id |-> "a", name |-> "lookup"]>>,
           stop_reason |-> "tool_use"],
          [content |-> <<empty, [type |-> "tool_use", id |-> "g", name |-> "ghost"]>>,
           stop_reason |-> "tool_use"],
          [content |-> <<empty>>, stop_reason |-> "stop"] }

\* how a provider answers a call_tool of an interleaved query
CallerProviderReplies == {r \in ProviderReplies : r.after = 20}

\* what an await of process_query received: the tools of get_all_tools, the
\* response of the model or its failure, the outcome of one execute_tool
NoExecution == [raises |-> "none", result |-> NoResult]

ToolsReply(tools) ==
    [kind |-> "tools", tools |-> tools, response |-> NoLLMResponse,
     execution |-> NoExecution]

LLMReply(r) ==
    [kind |-> "llm", tools |-> <<>>, response |-> r, execution |-> NoExecution]

LLMError ==
    [kind |-> "llm_error", tools |-> <<>>, response |-> NoLLMResponse,
     execution |-> NoExecution]

ToolReply(ex) ==
    [kind |-> "tool", tools |-> <<>>, response |-> NoLLMResponse,
     execution |-> [raises |-> ex.raises, result |-> ex.result]]

\* executor.py lines 83-111: the schemas of the clients that answer
RECURSIVE DiscoveredFrom(_, _, _, _)
DiscoveredFrom(i, tools, sess, listing) ==
    IF i > Len(ClientOrder) THEN tools
    ELSE DiscoveredFrom(i + 1,
             discovered(tools, ClientOrder[i], list_tools(ClientOrder[i], sess, listing)),
             sess, listing)

get_available_tools(sess, listing) == DiscoveredFrom(1, <<>>, sess, listing)

\* service.py lines 103-117: the locals of a call up to get_all_tools
called(req) ==
    [NoQuery EXCEPT
        !.pc = "get_all_tools",
        !.request = req,
        !.conversation =
            add_message(
                [NoConversation EXCEPT !.max_iterations = effective_max_iterations(req)],
                "user", <<[type |-> "text", text |-> req.query]>>,
                [tool_results |-> FALSE])]

\* service.py lines 218-233: the loop is left and the ChatResponse built
finished(local) ==
    [local EXCEPT
        !.pc = "done",
        !.response = ChatResponse(local.final_text_response, local.conversation,
                                  local.total_tools_called)]

\* service.py lines 122-136: the test of the loop, and its body up to the
\* await of the model
next_iteration(local) ==
    IF local.conversation.is_complete THEN finished(local)
    ELSE [local EXCEPT !.conversation = increment_iteration(@),
                       !.requested_calls = <<>>, !.tool_calls = <<>>,
                       !.results = <<>>, !.pc = "llm"]

\* service.py lines 117-120: get_all_tools returned
on_tools(local, tools) == next_iteration([local EXCEPT !.available_tools = tools])

\* service.py lines 211-216
on_llm_error(local) == [local EXCEPT !.raised = "MCPRouterException", !.pc = "raised"]

\* service.py lines 131-175 and 199-201
on_llm_response(local, r, cap) ==
    LET conv1 == add_message(local.conversation, "assistant",
                     message_content_to_str(create_assistant_message(r).content),
                     [tool_results |-> FALSE])
        text == get_text(r)
        final1 == update_final_text(local.final_text_response, text)
    IN  IF r.stop_reason = "end_turn"
        THEN finished([local EXCEPT !.conversation = conv1,
                                    !.final_text_response = text])
        ELSE IF has_tool_calls(r)
        THEN [local EXCEPT !.conversation = conv1,
                           !.final_text_response = final1,
                           !.requested_calls = get_tool_calls(r),
                           !.tool_calls = capped_tool_calls(get_tool_calls(r), cap),
                           !.pc = "tools"]
        ELSE next_iteration([local EXCEPT
                 !.conversation = [conv1 EXCEPT !.is_complete = TRUE],
                 !.final_text_response = final1])

\* executor.py lines 250-268 and service.py lines 166-209: one execute_tool
\* ended; after the last one the tool-result message is appended
on_tool(local, ex) ==
    IF ex.raises # "none"
    THEN IF on_tool_execution_error(local.final_text_response) = "complete"
         THEN next_iteration([local EXCEPT !.conversation.is_complete = TRUE,
                                           !.results = <<>>])
         ELSE [local EXCEPT !.raised = ex.raises, !.results = <<>>, !.pc = "raised"]
    ELSE LET res == append_result(local.results, ex.result) IN
         IF Len(res) < Len(local.tool_calls)
         THEN [local EXCEPT !.results = res]
         ELSE next_iteration([local EXCEPT
                  !.results = res,
                  !.total_tools_called = @ + Len(local.requested_calls),
                  !.conversation =
                      add_message(@, "user",
                          message_content_to_str(create_tool_result_message(res).content),
                          [tool_results |-> TRUE])])

\* the locals of a call after one of its awaits received `reply`
received(local, reply, cap) ==
    LET after == CASE reply.kind = "tools" -> on_tools(local, reply.tools)
                   [] reply.kind = "llm" -> on_llm_response(local, reply.response, cap)
                   [] reply.kind = "llm_error" -> on_llm_error(local)
                   [] OTHER -> on_tool(local, reply.execution)
    IN  [after EXCEPT !.replies = Append(local.replies, reply)]

\* calls whose ConversationStates hold one and the same messages list
resumed_on_shared_messages(qs, q, reply, cap) ==
    LET after == received(qs[q], reply, cap) IN
    [p \in DOMAIN qs |->
        IF p = q THEN after
        ELSE [qs[p] EXCEPT !.conversation.messages = after.conversation.messages]]

\* service.py lines 103-120 and chat/models.py lines 35-39: the call of
\* caller q resumes; what it updates are its own locals and its own
\* ConversationState, whose messages list comes from default_factory
resumed(qs, q, reply, cap) == [qs EXCEPT ![q] = received(qs[q], reply, cap)]

\* process_query running alone on the replies of a call
RECURSIVE Replayed(_, _, _)
Replayed(local, replies, cap) ==
    IF replies = <<>> THEN local
    ELSE Replayed(received(local, replies[1], cap), Tail(replies), cap)

process_query_alone(req, replies, cap) == Replayed(called(req), replies, cap)

\* what the interleaved calls leave alone
interleaved_frame ==
    <<pc, request, conversation, total_tools_called, final_text_response,
      llm_request, llm_response, llm_calls, requested_calls, tool_calls,
      results, exec_log, last_exec, tool_results, tool_result_message,
      tool_exception, raised, response, max_concurrent_tools,
      mcp_client, discovery, retry, sampling, outbound, io, resources>>

InitInterleaved ==
    /\ pc = "interleaved"
    /\ QueryIdle
    /\ session = [c \in Clients |-> TRUE]
    /\ mcp_client = [c \in Clients |-> ReadyClient]
    /\ discovery = NoDiscovery
    /\ retry = NoRetry
    /\ sampling = NoSampling
    /\ AuxIdle

\* service.py lines 103-117 and manager.py lines 55-60: caller q calls
\* process_query; with a cache hit it runs on to the await of the model,
\* otherwise it awaits get_available_tools
ProcessQueryCalled(q) ==
    /\ queries[q].pc = "idle"
    /\ \E req \in CallerRequests(q) :
          LET started == [queries EXCEPT ![q] = called(req)] IN
          queries' = IF cache_hit(manager, TRUE)
                     THEN resumed(started, q, ToolsReply(manager.tools_cache),
                                  max_concurrent_tools)
                     ELSE started
    /\ UNCHANGED <<manager, session, interleaved_frame>>

\* manager.py lines 60-66: get_available_tools returned to the call of q; the
\* shared cache is updated
ToolsDiscovered(q) ==
    /\ queries[q].pc = "get_all_tools"
    /\ \E listing \in Listings :
          LET tools == get_available_tools(session, listing) IN
          /\ manager' = [manager EXCEPT !.tools_cache = tools, !.cache_valid = TRUE]
          /\ queries' = resumed(queries, q, ToolsReply(tools), max_concurrent_tools)
    /\ UNCHANGED <<session, interleaved_frame>>

\* service.py lines 211-216: the model call of q raises
ModelFails(q) ==
    /\ queries[q].pc = "llm"
    /\ queries' = resumed(queries, q, LLMError, max_concurrent_tools)
    /\ UNCHANGED <<manager, session, interleaved_frame>>

\* service.py lines 131-175: the model answers the call of q
ModelAnswers(q) ==
    /\ queries[q].pc = "llm"
    /\ \E r \in CallerResponses(q, queries[q].conversation.iteration_count) :
          queries' = resumed(queries, q, LLMReply(r), max_concurrent_tools)
    /\ UNCHANGED <<manager, session, interleaved_frame>>

\* executor.py lines 250-265: one execute_tool of the batch of q ends
ToolAnswers(q) ==
    /\ queries[q].pc = "tools"
    /\ \E listing \in Listings, reply \in CallerProviderReplies :
          LET call == queries[q].tool_calls[Len(queries[q].results) + 1]
              ex == execute_tool(call.name, call.id, session, listing, reply)
          IN  /\ queries' = resumed(queries, q, ToolReply(ex), max_concurrent_tools)
              /\ session' = ex.session
    /\ UNCHANGED <<manager, interleaved_frame>>

NextInterleaved ==
    \/ \E q \in Callers : ProcessQueryCalled(q)
    \/ \E q \in Callers : ToolsDiscovered(q)
    \/ \E q \in Callers : ModelFails(q)
    \/ \E q \in Callers : ModelAnswers(q)
    \/ \E q \in Callers : ToolAnswers(q)

SpecInterleaved == InitInterleaved /\ [][NextInterleaved]_vars

---------------------------------------------------------------------------
(* Vocabulary of the properties *)

IsAssistant(m) == m.role = "assistant"

IsToolResultMessage(m) ==
    /\ m.role = "user"
    /\ m.content # <<>>
    /\ \A i \in DOMAIN m.content : IsToolResult(m.content[i])

\* the text a stored assistant message carries
MessageText(m) == JoinTexts(SelectSeq(m.content, IsText))

\* the tool-use blocks a stored assistant message carries
MessageToolUses(m) == SelectSeq(m.content, IsToolUse)

MaxOf(S) == CHOOSE x \in S : \A y \in S : y <= x

\* the most recent non-empty text of a model response in the history, or ""
LastSeenText(msgs) ==
    LET S == {i \in DOMAIN msgs : IsAssistant(msgs[i]) /\ MessageText(msgs[i]) # ""}
    IN  IF S = {} THEN "" ELSE MessageText(msgs[MaxOf(S)])

RECURSIVE SumToolUses(_)
SumToolUses(msgs) ==
    IF msgs = <<>> THEN 0
    ELSE (IF IsAssistant(msgs[1]) THEN Len(MessageToolUses(msgs[1])) ELSE 0)
            + SumToolUses(Tail(msgs))

\* the timeout the executor is configured with for a tool
ConfiguredTimeout(name) ==
    IF name \in DOMAIN tool_timeouts THEN tool_timeouts[name] ELSE default_timeout

\* some connected client that answers its listing exposes the tool
Exposed(name, sess, listing) ==
    \E c \in Clients : sess[c] /\ listing[c] = "ok" /\ name \in ServerTools[c]

---------------------------------------------------------------------------
(* Properties of process_query (specification Spec) *)

\* C1: in every state of process_query, iteration_count is at most
\* max_iterations (the max_iterations of the request), and the number of
\* model calls made for the query is at most max_iterations.
IterationsBounded ==
    pc # "start" =>
        /\ conversation.max_iterations = request.max_iterations
        /\ conversation.iteration_count <= conversation.max_iterations
        /\ llm_calls <= conversation.max_iterations

\* a query that used every iteration it was allowed, more than one
IterationsBoundedWitness ==
    /\ pc = "done"
    /\ request.max_iterations >= 2
    /\ llm_calls = request.max_iterations
    /\ conversation.iteration_count = request.max_iterations

\* C2 (as stated): once is_complete is true, no message is appended, the
\* iteration count does not change and is_complete stays true.
CompleteIsFrozen ==
    [][conversation.is_complete =>
          /\ conversation'.messages = conversation.messages
          /\ conversation'.iteration_count = conversation.iteration_count
          /\ conversation'.is_complete]_vars

\* C3 (as stated): the conversation state of every returned ChatResponse is
\* complete.
ReturnedStateIsComplete ==
    pc = "done" => response.conversation_state.is_complete

\* the ids the results of a dispatch carry when the model asked for `uses`
DispatchedIds(uses) ==
    LET batch == capped_tool_calls(uses, max_concurrent_tools) IN
    [i \in DOMAIN batch |-> batch[i].id]

\* the history is k rounds of (assistant message with tool calls, tool-result
\* message) followed by one assistant message with text and no tool call
ToolRoundsThenText(msgs, k) ==
    /\ Len(msgs) = 2 * k + 2
    /\ \A j \in 1..k :
          /\ IsAssistant(msgs[2 * j])
          /\ MessageToolUses(msgs[2 * j]) # <<>>
          /\ IsToolResultMessage(msgs[2 * j + 1])
    /\ IsAssistant(msgs[2 * k + 2])
    /\ MessageToolUses(msgs[2 * k + 2]) = <<>>
    /\ MessageText(msgs[2 * k + 2]) # ""

\* C4: when the first k responses (k < max_iterations) requested tools, every
\* dispatch returned, and response k+1 is text without tool calls, the query
\* returns that text with iterations_used = k+1 and tools_called = the number
\* of tool calls requested; and every model call after the first is handed a
\* history that ends with the user-role tool-result message of the dispatch
\* before it (one result per dispatched call, in order, under the call's id).
ToolRoundsThenTextReturned ==
    /\ \A k \in 0..(MaxIterations - 1) :
          (pc = "done" /\ ToolRoundsThenText(conversation.messages, k)) =>
              /\ k < conversation.max_iterations
              /\ response.response = MessageText(Last(conversation.messages))
              /\ response.iterations_used = k + 1
              /\ response.tools_called = SumToolUses(conversation.messages)
              /\ response.conversation_state = conversation
    /\ llm_calls >= 2 =>
          LET n == Len(llm_request) IN
          /\ n >= 3
          /\ llm_request[n].role = "user"
          /\ llm_request[n - 1].role = "assistant"
          /\ llm_request[n].content =
                LET ids == DispatchedIds(MessageToolUses(llm_request[n - 1])) IN
                [i \in DOMAIN ids |-> [type |-> "tool_result", tool_use_id |-> ids[i]]]

\* the spec instance: one round with one call, then text
ToolRoundsThenTextWitness ==
    /\ pc = "done"
    /\ ToolRoundsThenText(conversation.messages, 1)
    /\ Len(MessageToolUses(conversation.messages[2])) = 1
    /\ response.iterations_used = 2
    /\ response.tools_called = 1
    /\ response.response = TextOf(2)

\* the loop was left through its condition after the dispatch of the last
\* allowed iteration: every iteration got a model response, the last one
\* asked for tools and its tool-result message is the last of the history
CutOffByIterationBound ==
    /\ pc \notin {"start", "llm", "tools", "except"}
    /\ conversation.iteration_count = conversation.max_iterations
    /\ llm_calls = conversation.max_iterations
    /\ Len(conversation.messages) = 2 * conversation.max_iterations + 1
    /\ IsToolResultMessage(Last(conversation.messages))

\* C5: when the loop ends because iteration_count reached max_iterations while
\* the last response still requested tools, process_query raises nothing, and
\* what it returns is the most recent non-empty text of any model response of
\* the query, or 'No response generated' when no response carried text.
BestEffortTextAtIterationBound ==
    CutOffByIterationBound =>
        /\ raised = "none"
        /\ pc \in {"loop", "return", "done"}
        /\ pc = "done" =>
              /\ response.response =
                    IF LastSeenText(conversation.messages) # ""
                    THEN LastSeenText(conversation.messages)
                    ELSE NO_RESPONSE_GENERATED
              /\ response.metadata.max_iterations_reached

\* cut off after two iterations, the text coming from the first response only
BestEffortTextWitness ==
    /\ pc = "done"
    /\ CutOffByIterationBound
    /\ conversation.max_iterations = 2
    /\ MessageText(conversation.messages[4]) = ""
    /\ response.response = TextOf(1)

\* C6: when the dispatch raised a ToolExecutionError: if some response of the
\* query carried a non-empty text, the conversation is marked complete and the
\* query returns the most recent such text; if none did, the ToolExecutionError
\* reaches the caller.
ToolErrorDegradesOrPropagates ==
    tool_exception # "none" =>
        /\ tool_exception \in ToolExecutionErrors
        /\ pc \in {"except", "loop", "return", "done", "raised"}
        /\ pc \in {"loop", "return", "done"} =>
              /\ LastSeenText(conversation.messages) # ""
              /\ conversation.is_complete
              /\ raised = "none"
        /\ pc = "done" =>
              /\ response.response = LastSeenText(conversation.messages)
              /\ response.conversation_state.is_complete
        /\ pc = "raised" =>
              /\ LastSeenText(conversation.messages) = ""
              /\ raised = tool_exception

\* a dispatch failed in the second iteration and the text of the first
\* response was returned
ToolErrorDegradesWitness ==
    /\ pc = "done"
    /\ tool_exception # "none"
    /\ conversation.iteration_count = 2
    /\ response.response = TextOf(1)

\* C7: a requested capability that no connected client exposes makes
\* execute_tool raise ToolNotFoundException; no result is made up for it, the
\* history gets no tool-result message for that request, and no further model
\* call is made for the query.
UnknownToolStopsTheQuery ==
    /\ (last_exec.name # "none" /\ ~Exposed(last_exec.name, session, last_exec.listing)) =>
          /\ pc = "except"
          /\ tool_exception = "ToolNotFoundException"
    /\ \A i \in DOMAIN results :
          \E c \in Clients : results[i].content.tool_name \in ServerTools[c]
    /\ \A i \in DOMAIN tool_results :
          \E c \in Clients : tool_results[i].content.tool_name \in ServerTools[c]
    /\ tool_exception # "none" =>
          /\ tool_exception = "ToolNotFoundException"
          /\ pc \notin {"llm", "tools"}
          /\ IsAssistant(Last(conversation.messages))
          /\ llm_calls = conversation.iteration_count
          /\ Len(conversation.messages) = 2 * llm_calls

\* the model asked for "ghost" and the query ended with the exception
UnknownToolWitness ==
    /\ pc = "raised"
    /\ raised = "ToolNotFoundException"
    /\ \E i \in DOMAIN requested_calls : requested_calls[i].name = "ghost"

---------------------------------------------------------------------------
(* Properties of the executor (specification SpecExecutor) *)

TimeoutYieldsErrorResult ==
    /\ \A c \in Clients : session[c]
    /\ (/\ last_exec.client # "none"
        /\ last_exec.reply.after > ConfiguredTimeout(last_exec.name)) =>
          /\ tool_exception = "none"
          /\ pc \in {"tools", "exec_returned"}
          /\ Last(results).is_error
          /\ Last(results).content.kind = "timed out"
          /\ Last(results).content.timeout = ConfiguredTimeout(last_exec.name)
          /\ session[last_exec.client]

\* a call of "analyze" timed out after 60 s and a later call of it, on the
\* same client, succeeded
TimeoutThenSuccessWitness ==
    /\ Len(results) >= 2
    /\ \E i, j \in DOMAIN results :
          /\ i < j
          /\ results[i].content = [kind |-> "timed out", tool_name |-> "analyze", timeout |-> 60]
          /\ results[i].is_error
          /\ results[j].content.tool_name = "analyze"
          /\ ~results[j].is_error

\* C10: execute_tools returns one result per executed call, in request order:
\* result i answers call i of the request (its id, its tool), the providers
\* were called in that order, and the number of results is
\* min(len(tool_calls), max_concurrent_tools).
ResultsInRequestOrder ==
    /\ pc = "tools" =>
          /\ Len(results) <= Len(tool_calls)
          /\ \A i \in DOMAIN results :
                /\ results[i].tool_use_id =
                      tool_use_id_of(requested_calls[i].id, requested_calls[i].name)
                /\ results[i].content.tool_name = requested_calls[i].name
    /\ pc = "exec_returned" =>
          /\ Len(tool_results) = Min(Len(requested_calls), max_concurrent_tools)
          /\ Len(exec_log) = Len(tool_results)
          /\ \A i \in DOMAIN tool_results :
                /\ tool_results[i].tool_use_id =
                      tool_use_id_of(requested_calls[i].id, requested_calls[i].name)
                /\ tool_results[i].content.tool_name = requested_calls[i].name
                /\ exec_log[i] = requested_calls[i].name

\* two different calls were executed and answered in the order of the request
ResultsInRequestOrderWitness ==
    /\ pc = "exec_returned"
    /\ Len(tool_results) = 2
    /\ requested_calls[1].name # requested_calls[2].name
    /\ tool_results[1].is_error # tool_results[2].is_error

---------------------------------------------------------------------------
(* Properties of the message construction (specification Spec) *)

\* C11: create_tool_result_message(results) is a user-role message with
\* exactly one tool_result block per result, in the order of the results,
\* block i carrying the tool_use_id, content and is_error of results[i].
ToolResultMessageMirrorsResults ==
    tool_result_message # NoMessage =>
        /\ tool_result_message.role = "user"
        /\ Len(tool_result_message.content) = Len(tool_results)
        /\ \A i \in DOMAIN tool_results :
              LET b == tool_result_message.content[i] IN
              /\ b.type = "tool_result"
              /\ b.tool_use_id = tool_results[i].tool_use_id
              /\ b.content = tool_results[i].content
              /\ b.is_error = tool_results[i].is_error

\* a message built from two results that differ
ToolResultMessageWitness ==
    /\ tool_result_message # NoMessage
    /\ Len(tool_results) = 2
    /\ tool_results[1] # tool_results[2]
    /\ tool_result_message.content[1].is_error # tool_result_message.content[2].is_error

\* the ids of the tool-use blocks of the messages before message n
EmittedIds(msgs, n) ==
    {msgs[j].content[i].id : <<j, i>> \in
        {<<j, i>> \in (1..(n - 1)) \X (1..(MaxCalls + 1)) :
            /\ i \in DOMAIN msgs[j].content
            /\ IsToolUse(msgs[j].content[i])}}

\* C12 (as stated, specification SpecAnyId): every tool-result block of the
\* conversation carries the id of a tool-use block of an earlier message,
\* whatever id the model supplied, the empty one included.
NoOrphanedResults ==
    \A n \in DOMAIN conversation.messages :
        \A i \in DOMAIN conversation.messages[n].content :
            IsToolResult(conversation.messages[n].content[i]) =>
                conversation.messages[n].content[i].tool_use_id
                    \in EmittedIds(conversation.messages, n)

---------------------------------------------------------------------------
(* Properties of discovery and of the client (specification SpecClients) *)

\* the schemas of the clients that answered, in registration order
RECURSIVE SchemasOfAnswering(_, _)
SchemasOfAnswering(i, answered) ==
    IF i > Len(answered) THEN <<>>
    ELSE (IF answered[i]
          THEN [k \in DOMAIN ServerToolList[ClientOrder[i]] |->
                   [client |-> ClientOrder[i], name |-> ServerToolList[ClientOrder[i]][k]]]
          ELSE <<>>)
         \o SchemasOfAnswering(i + 1, answered)

---------------------------------------------------------------------------
(* Properties of chat_with_retry (specification SpecRetry) *)

\* the failures after which the claim C14 expects another attempt
IsRateLimitOrTimeout(outcome) == outcome.kind \in {"LLMRateLimitError", "LLMTimeoutError"}

\* this step is one call of chat
ChatCalled == retry.pc = "calling" /\ retry'.calls = retry.calls + 1

\* C14: chat_with_retry with max_retries = N: while the attempts so far have
\* failed with rate-limit or timeout errors and fewer than N were made, the
\* next attempt is made; and when attempt j <= N succeeds, the function
\* returns the response of attempt j after exactly j calls of chat.
RetryUntilSuccess ==
    /\ [](/\ retry.calls = Len(retry.history)
          /\ retry.pc = "calling" => retry.calls = retry.attempt /\ retry.attempt < retry.max_retries
          /\ retry.pc = "returned" =>
                /\ retry.calls <= retry.max_retries
                /\ retry.history[retry.calls].kind = "ok"
                /\ retry.response_of = retry.calls)
    /\ [][ChatCalled =>
            /\ (retry'.history[retry'.calls].kind = "ok") =>
                  retry'.pc = "returned" /\ retry'.response_of = retry'.calls
            /\ (IsRateLimitOrTimeout(retry'.history[retry'.calls])
                   /\ retry'.calls < retry.max_retries) =>
                  retry'.pc = "sleeping"]_vars

\* the instance of the specification: rate limit on attempts 1 and 2,
\* success on attempt 3, inside a query
RetryUntilSuccessWitness ==
    /\ pc = "llm"
    /\ retry.pc = "returned"
    /\ retry.max_retries = 3
    /\ retry.calls = 3
    /\ retry.response_of = 3
    /\ retry.history = <<[kind |-> "LLMRateLimitError", status |-> 0],
                         [kind |-> "LLMRateLimitError", status |-> 0],
                         [kind |-> "ok", status |-> 0]>>

\* C15: an authentication failure on any attempt is raised to the caller at
\* once; after it no further call of chat is made, and process_query, when it
\* was the caller, ends with an exception without another model call.
AuthenticationFailureIsNeverRetried ==
    /\ [][(ChatCalled /\ retry'.history[retry'.calls].kind = "LLMAuthenticationError") =>
             retry'.pc = "raised" /\ retry'.exception = "LLMAuthenticationError"]_vars
    /\ [][(retry.pc = "raised" /\ retry.exception = "LLMAuthenticationError"
              /\ pc \in {"llm", "raised"}) =>
             /\ retry' = retry
             /\ pc' = "raised"
             /\ raised' = "MCPRouterException"
             /\ conversation' = conversation]_vars
    /\ [](pc = "raised" /\ retry.pc = "raised" => llm_calls = conversation.iteration_count)

\* the authentication failure came on a second attempt of the second model
\* call of a query, and the query ended with the exception
AuthenticationFailureWitness ==
    /\ pc = "raised"
    /\ raised = "MCPRouterException"
    /\ retry.exception = "LLMAuthenticationError"
    /\ retry.calls = 2
    /\ llm_calls = 2

\* the retry policy of the model call of the query is exhausted
RetriesExhausted ==
    /\ retry.pc = "raised"
    /\ retry.max_retries = call_llm_max_retries
    /\ retry.calls = retry.max_retries

\* C16: when a model call fails after the retry policy is exhausted,
\* process_query ends with an error only if no model text was produced earlier
\* in the query; with prior text it returns that text as a partial answer.
ModelFailureDegradesToPartialAnswer ==
    /\ (RetriesExhausted /\ pc = "raised") =>
           /\ final_text_response = ""
           /\ LastSeenText(conversation.messages) = ""
    /\ (RetriesExhausted /\ pc = "done") =>
           response.response = LastSeenText(conversation.messages)

---------------------------------------------------------------------------
(* Properties of the client lifecycle (specification SpecClients) *)

\* connect() of client c has just ended with the exception e
ConnectRaised(c, e) == mcp_client[c].pc = "idle" /\ mcp_client[c].outcome = e

\* C17: when connect() ends with MCPTimeoutError, whichever of its two
\* timeouts fired, a client that was not connected before is not connected
\* afterwards: is_connected is false and the session is absent, so operations
\* are refused.
TimedOutConnectLeavesUnconnected ==
    \A c \in Clients :
        (ConnectRaised(c, "MCPTimeoutError") /\ ~mcp_client[c].connected_once) =>
            /\ ~is_connected(c)
            /\ \A listing \in Listings : ~list_tools(c, session, listing).ok

\* C18: once cleanup() has run on a client it is never connected again, and a
\* client at rest is connected only after a connect() that completed.
ClosedIsTerminal ==
    \A c \in Clients :
        /\ mcp_client[c].cleaned_once => ~is_connected(c)
        /\ (mcp_client[c].pc = "idle" /\ is_connected(c)) => mcp_client[c].connected_once

\* this step is the return of cleanup() of client c
CleanupReturns(c) == mcp_client[c].pc = "cleanup_aclose" /\ mcp_client'[c].pc = "idle"

\* C19: cleanup() never raises: whether or not the teardown failed it returns
\* (a failure becomes a warning), the client is not connected from its first
\* statement on and when it returns, and this holds as well when cleanup() is
\* called again or on a client that was never connected.
CleanupNeverRaises ==
    /\ [](\A c \in Clients :
            /\ mcp_client[c].pc = "cleanup_aclose" => ~is_connected(c)
            /\ mcp_client[c].outcome # "Exception")
    /\ [][\A c \in Clients : CleanupReturns(c) =>
            /\ mcp_client'[c].outcome \in {"returned", "returned_with_warning"}
            /\ ~session'[c]
            /\ mcp_client'[c].exit_stack = {}]_vars

\* a connected client was cleaned up, the teardown failed, and cleanup()
\* returned with the client not connected
CleanupNeverRaisesWitness ==
    \E c \in Clients :
        /\ mcp_client[c].pc = "idle"
        /\ mcp_client[c].connected_once
        /\ mcp_client[c].cleaned_once
        /\ mcp_client[c].outcome = "returned_with_warning"
        /\ ~is_connected(c)

---------------------------------------------------------------------------
(* Properties of the sampling handler (specification SpecSampling) *)

\* a CreateMessageResult the protocol accepts: role, model and a text content
ValidCreateMessageResult(r) ==
    /\ r.role = "assistant"
    /\ r.model # ""
    /\ r.content.type = "text"

\* the texts that report an error to the remote side
ErrorTexts ==
    {"Error: No LLM provider configured for sampling"}
    \cup {"Error during generation: " \o chat_error_message(o) :
            o \in {x \in SamplingOutcomes : x.kind # "ok"}}

\* C20: every sampling request is answered with exactly one valid
\* CreateMessageResult and never with an exception; without a provider, or
\* when the model call failed, the text of the result is an error string.
SamplingAlwaysAnswered ==
    \A c \in Clients :
        LET s == sampling[c] IN
        /\ s.raised = "none"
        /\ s.answers = s.requests - (IF s.pc = "calling" THEN 1 ELSE 0)
        /\ (s.pc = "idle" /\ s.requests > 0) =>
              /\ ValidCreateMessageResult(s.result)
              /\ (~s.provider \/ s.outcome # "ok") => s.result.content.text \in ErrorTexts
              /\ (s.provider /\ s.outcome = "ok") => s.result.content.text \in {"", "S"}

\* one client without a provider answered a request, and the other one
\* answered a request whose model call timed out
SamplingAlwaysAnsweredWitness ==
    /\ ~sampling["hr"].provider
    /\ sampling["hr"].answers = 1
    /\ sampling["hr"].result.content.text = "Error: No LLM provider configured for sampling"
    /\ sampling["aux"].provider
    /\ sampling["aux"].answers = 1
    /\ sampling["aux"].outcome = "LLMTimeoutError"
    /\ sampling["aux"].result.content.text = "Error during generation: Request to OpenRouter timed out"

---------------------------------------------------------------------------
(* Properties of the two flows of a connection (specification SpecDuplex) *)

---------------------------------------------------------------------------
(* Properties of the resource resolution (specification SpecResources) *)

\* C22: every suspension point of a query is bounded by a timeout, so that
\* process_query never waits for ever on a provider that does not answer.
QueryNeverBlocks == resources.pc # "blocked"

\* the query with each reference token replaced by the block of its own
\* resource, everything else as it was
ExpectedQuery(res) ==
    [i \in DOMAIN res.query |->
        IF res.query[i].kind = "ref"
        THEN replacement(res.query[i].id, res.loaded[res.query[i].id])
        ELSE res.query[i]]

\* C28: before the first model call every @identifier token of the query is
\* replaced by the delimited block of its resource, holding the content when
\* it resolved and the not-found placeholder naming the id when it did not;
\* no reference is dropped, the rest of the query is unchanged, and a failed
\* resolution does not abort the query.
ReferencesReplaced ==
    /\ raised = "none"
    /\ resources.pc = "done" =>
          /\ \A i \in DOMAIN resources.refs :
                resources.loaded[resources.refs[i].resource_id] # "unset"
          /\ resources.processed = ExpectedQuery(resources)
          /\ conversation.messages[1].content = resources.processed

---------------------------------------------------------------------------
(* Properties of the capability cache (specification SpecCache) *)

\* this step is a get_all_tools that answers from the cache
ServedFromCache == manager.pc = "idle" /\ manager'.pc = "returned" /\ manager'.from_cache

\* C23: the cache never serves stale entries: a get_all_tools that follows
\* invalidate_cache queries the clients again, and a get_all_tools that
\* answers from the cache returns no schema of a client that has been
\* disconnected since.
CacheNeverStale ==
    /\ [][(manager.pc = "idle" /\ manager'.pc # "idle" /\ ~manager.cache_valid) =>
             manager'.pc = "fetching" /\ discovery'.index = 1]_vars
    /\ [][ServedFromCache =>
             \A i \in DOMAIN manager'.returned : is_connected(manager'.returned[i].client)]_vars

\* a message the provider must not see: no role, or a role outside the three
BadRole(message) == message.kind # "Message" /\ message.role \notin ValidRoles

\* C24: to_openrouter_messages raises MessageFormatError whenever one of the
\* messages lacks a role or has a role outside {user, assistant, system}, so
\* that no such message is in the list it returns for the provider.
BadRolesRejected ==
    (io.op = "to_openrouter_messages" /\ io.pc # "called"
        /\ \E i \in DOMAIN io.input : BadRole(io.input[i]))
    => io.raised = "MessageFormatError"

\* the raw response has no completion choice
NoChoice(response_data) == response_data.choices = <<>>

\* C25: from_openrouter_response raises MessageFormatError when the raw
\* response has no completion choice, and whatever else goes wrong while the
\* response is parsed is raised as MessageFormatError too.
ParseFailuresAreFormatErrors ==
    (io.op = "from_openrouter_response" /\ io.pc # "called")
    => /\ io.raised \in {"none", "MessageFormatError"}
       /\ NoChoice(io.input) => (io.pc = "raised" /\ io.raised = "MessageFormatError")

\* a response with a choice whose content LLMResponse does not accept
MalformedChoiceWitness ==
    /\ io.op = "from_openrouter_response"
    /\ io.pc = "raised"
    /\ ~NoChoice(io.input)
    /\ io.raised = "MessageFormatError"

\* the texts of the text blocks alone, in order, space-joined
TextBlocksJoined(content) == JoinTexts(SelectSeq(content, IsText))

\* C26: for every list of content blocks extract_text_from_content returns
\* exactly the texts of the text blocks, in order, joined with single spaces;
\* blocks of other kinds contribute nothing and the call never raises.
OnlyTextBlocksJoined ==
    (io.op = "extract_text_from_content" /\ io.pc # "called")
    => /\ io.pc = "returned"
       /\ io.output = TextBlocksJoined(io.input)

\* the message of the first choice of a wire response
WireMessage(response_data) == response_data.choices[1].message

\* a wire response whose content is a list of text and tool_use blocks
ListOfTextAndToolUse(response_data) ==
    /\ ~NoChoice(response_data)
    /\ WireMessage(response_data).content.kind = "list"
    /\ \A i \in DOMAIN WireMessage(response_data).content.blocks :
          WireMessage(response_data).content.blocks[i].type \in {"text", "tool_use"}

\* a wire response whose tool calls are in the sibling field alone, each with
\* the JSON text of an object as arguments
SiblingCallsOnly(response_data) ==
    /\ ~NoChoice(response_data)
    /\ WireMessage(response_data).tool_calls # <<>>
    /\ \A i \in DOMAIN WireMessage(response_data).content.blocks :
          WireMessage(response_data).content.blocks[i].type = "text"
    /\ \A i \in DOMAIN WireMessage(response_data).tool_calls :
          WireMessage(response_data).tool_calls[i].function.arguments.json = "object"

\* the text of the blocks the provider sent
OriginalText(response_data) ==
    LET blocks == SelectSeq(WireMessage(response_data).content.blocks, IsText) IN
    JoinStripped([i \in DOMAIN blocks |-> blocks[i].text])

\* the tool calls of the blocks the provider sent
OriginalToolCalls(response_data) ==
    LET uses == SelectSeq(WireMessage(response_data).content.blocks, IsToolUse) IN
    [i \in DOMAIN uses |->
        [id |-> uses[i].id, name |-> uses[i].name, input |-> uses[i].input]]

\* the tool calls of the sibling field
SiblingToolCalls(response_data) ==
    LET calls == WireMessage(response_data).tool_calls IN
    [i \in DOMAIN calls |->
        [id |-> calls[i].id, name |-> calls[i].function.name,
         input |-> calls[i].function.arguments.value]]

BatchSize == IF Len(requested_calls) > max_concurrent_tools
             THEN max_concurrent_tools ELSE Len(requested_calls)

\* C30: execute_tools executes at most max_concurrent_tools calls of a batch:
\* the calls sent to a provider are, in order, calls among the first
\* max_concurrent_tools requested ones, and when execute_tools returns it has
\* executed exactly those first calls, one result each; no later call of the
\* batch is ever sent to a provider.
BatchIsCapped ==
    pc \in {"tools", "except", "exec_returned"}
    => /\ Len(exec_log) <= BatchSize
       /\ \A i \in DOMAIN exec_log : exec_log[i] = requested_calls[i].name
       /\ last_exec # NoExec =>
             \E i \in 1..BatchSize : last_exec.name = requested_calls[i].name
       /\ pc = "exec_returned"
            => /\ Len(exec_log) = BatchSize
               /\ Len(tool_results) = BatchSize

\* two calls were requested with a cap of one: the first was executed, the
\* second was dropped
ExcessCallDroppedWitness ==
    /\ pc = "exec_returned"
    /\ max_concurrent_tools = 1
    /\ Len(requested_calls) = 2
    /\ requested_calls[1].name # requested_calls[2].name
    /\ exec_log = <<requested_calls[1].name>>
    /\ Len(tool_results) = 1

\* a model call is made in this step
ModelCallStarts == llm_calls' = llm_calls + 1

\* a tool call is sent to a provider in this step
ToolCallStarts == Len(exec_log') = Len(exec_log) + 1

\* C29: the loop of one process_query is strictly sequential.  A model call
\* is made only while no tool call of the query is pending, and a model call
\* that follows a round of tool calls is made only once the tool-result
\* message of that round is the last message of the history, which is then
\* part of the request; a tool call is sent only after the model call has
\* returned and every earlier call of the batch has its result, and it is the
\* next call of the batch.
StrictlySequentialLoop ==
    [][ /\ ModelCallStarts
            => /\ pc = "llm"
               /\ results = <<>> /\ exec_log = <<>>
               /\ llm_calls >= 1
                    => /\ has_tool_calls(llm_response)
                       /\ conversation.messages # <<>>
                       /\ IsToolResultMessage(
                              conversation.messages[Len(conversation.messages)])
                       /\ Len(llm_request') = Len(conversation.messages)
                       /\ IsToolResultMessage(llm_request'[Len(llm_request')])
        /\ ToolCallStarts
            => /\ pc = "tools"
               /\ Len(results) = Len(exec_log)
               /\ Len(results) < Len(tool_calls)
               /\ exec_log'[Len(exec_log')] = tool_calls[Len(results) + 1].name
               /\ Len(results') = Len(exec_log')
      ]_vars

\* a second model call was made, after a round of tool calls whose results
\* are the last message of its request
SecondModelCallWitness ==
    /\ llm_calls = 2
    /\ Len(llm_request) >= 3
    /\ IsToolResultMessage(llm_request[Len(llm_request)])
    /\ IsAssistant(llm_request[Len(llm_request) - 1])

\* C31: the counter reported as ChatResponse.tools_called counts the tool
\* invocations that were executed: it changes only when a round of tool
\* calls ends, and then it grows by the number of calls of the round that
\* were sent to a provider, also when the batch was cut at the cap or
\* aborted part-way.
ToolsCalledCountsExecutions ==
    [][ /\ (exec_log # <<>> /\ exec_log' = <<>>)
            => total_tools_called' = total_tools_called + Len(exec_log)
        /\ total_tools_called' # total_tools_called
            => /\ exec_log' = <<>>
               /\ total_tools_called' = total_tools_called + Len(exec_log)
      ]_vars

\* C32: metadata.max_iterations_reached of a returned ChatResponse is true
\* exactly when the loop was cut off by the iteration bound while the model
\* still requested tools, and false when the model finished by itself.
MaxIterationsFlagMeansCutOff ==
    pc = "done"
    => (response.metadata.max_iterations_reached <=> CutOffByIterationBound)

\* client number i can serve the tool of the last execute_tool: it is
\* connected, its list_tools answered in time, and the answer names the tool
Serves(i) ==
    /\ session[ClientOrder[i]]
    /\ last_exec.listing[ClientOrder[i]] = "ok"
    /\ last_exec.name \in ServerTools[ClientOrder[i]]

\* C33: find_client_for_tool returns the first client, in registration
\* order, whose capability list was retrieved and contains the tool; clients
\* whose listing fails are skipped; it returns None when no client matches
\* (execute_tool then raises ToolNotFoundException), and otherwise the tool
\* is invoked on exactly that client.
FirstRegisteredClientWins ==
    (pc \in {"tools", "except", "exec_returned"} /\ last_exec # NoExec)
    => /\ last_exec.client = "none" <=> ~ \E i \in DOMAIN ClientOrder : Serves(i)
       /\ last_exec.client = "none" <=> tool_exception = "ToolNotFoundException"
       /\ last_exec.client # "none"
            => \E i \in DOMAIN ClientOrder :
                  /\ last_exec.client = ClientOrder[i]
                  /\ Serves(i)
                  /\ \A j \in 1..(i - 1) : ~Serves(j)
                  /\ exec_log # <<>> /\ Last(exec_log) = last_exec.name

\* two clients expose "lookup" and both answered the listing: the call went
\* to the one registered first
NameCollisionWitness ==
    /\ pc = "tools"
    /\ last_exec # NoExec
    /\ last_exec.name = "lookup"
    /\ \A c \in Clients : last_exec.listing[c] = "ok"
    /\ last_exec.client = ClientOrder[1]

\* the outcome of the call of chat made in this step
LastOutcome == retry'.history[retry'.calls]

\* C34: a provider error that is not a rate-limit, timeout or authentication
\* error is followed by another attempt only when its status code is one of
\* RETRY_STATUS_CODES and attempts remain; with any other status code, or
\* none, it is raised to the caller by the attempt that met it.
ProviderErrorRetriedOnlyForRetryableStatus ==
    [][(ChatCalled /\ LastOutcome.kind = "LLMProviderError")
        => IF LastOutcome.status \in RETRY_STATUS_CODES /\ retry'.calls < retry.max_retries
           THEN retry'.pc = "sleeping"
           ELSE /\ retry'.pc = "raised"
                /\ retry'.exception = "LLMProviderError"]_vars

\* a 503 was retried, and the 400 that followed was raised at once although
\* an attempt remained
ProviderErrorWitness ==
    /\ retry.pc = "raised"
    /\ retry.max_retries = 3
    /\ retry.calls = 2
    /\ retry.history = <<[kind |-> "LLMProviderError", status |-> 503],
                         [kind |-> "LLMProviderError", status |-> 400]>>

\* every call of chat so far failed with an error the loop retries
AllAttemptsRetryable ==
    \A i \in DOMAIN retry.history :
        \/ retry.history[i].kind \in {"LLMRateLimitError", "LLMTimeoutError"}
        \/ /\ retry.history[i].kind = "LLMProviderError"
           /\ retry.history[i].status \in RETRY_STATUS_CODES

\* C35: chat_with_retry always ends with a typed outcome: for every
\* max_retries >= 0 and every pattern of failures it calls chat at most
\* max_retries times and returns an LLMResponse or raises an
\* LLMProviderError (or a subclass of it); when every attempt fails with a
\* retryable error it makes exactly max_retries attempts.
AlwaysTypedOutcome ==
    /\ retry.calls <= retry.max_retries
    /\ retry.pc = "returned" => retry.history[retry.calls].kind = "ok"
    /\ retry.pc = "raised"
        => /\ retry.exception \in LLMProviderErrors
           /\ AllAttemptsRetryable => retry.calls = retry.max_retries

\* the response a finished from_openrouter_response returned
ReturnedResponse == IF io.pc = "read" THEN io.output.response ELSE io.output

\* the content of the choice is one LLMResponse accepts
AcceptableContent(response_data) ==
    \A i \in DOMAIN WireMessage(response_data).content.blocks :
        WireMessage(response_data).content.blocks[i].type \in {"text", "tool_use"}

\* the arguments of every sibling call are the JSON text of an object, or
\* cannot be parsed at all
ArgumentsObjectOrUnparseable(response_data) ==
    \A i \in DOMAIN WireMessage(response_data).tool_calls :
        WireMessage(response_data).tool_calls[i].function.arguments.json
            \in {"object", "invalid"}

\* the block the claim expects for one sibling call
ExpectedToolUse(tool_call) ==
    [type |-> "tool_use", id |-> tool_call.id, name |-> tool_call.function.name,
     input |-> IF tool_call.function.arguments.json = "invalid" THEN "{}"
               ELSE tool_call.function.arguments.value]

\* C36: when the message of the first choice has a sibling tool_calls field,
\* from_openrouter_response returns the content blocks followed by one
\* tool_use block per call (id, function name, parsed arguments), in call
\* order; arguments that cannot be parsed become the empty map and do not
\* make the parse fail.
SiblingCallsAppended ==
    (/\ io.op = "from_openrouter_response" /\ io.pc # "called"
     /\ ~NoChoice(io.input)
     /\ WireMessage(io.input).tool_calls # <<>>
     /\ AcceptableContent(io.input)
     /\ ArgumentsObjectOrUnparseable(io.input))
    => /\ io.pc \in {"returned", "read"}
       /\ LET calls == WireMessage(io.input).tool_calls
              blocks == ReturnedResponse.content
              n == Len(blocks) - Len(calls)
          IN  /\ n >= 0
              /\ SubSeq(blocks, 1, n) = content_blocks_of(WireMessage(io.input).content)
              /\ \A i \in DOMAIN calls : blocks[n + i] = ExpectedToolUse(calls[i])

\* a call with unparseable arguments followed a call with an object: both
\* were appended after the text, the first with an empty input
UnparseableArgumentsWitness ==
    /\ io.op = "from_openrouter_response"
    /\ io.pc = "returned"
    /\ Len(WireMessage(io.input).tool_calls) = 2
    /\ WireMessage(io.input).tool_calls[1].function.arguments.json = "invalid"
    /\ WireMessage(io.input).tool_calls[2].id = "d"
    /\ WireMessage(io.input).content.kind = "str"
    /\ Len(io.output.content) = 3
    /\ io.output.content[2].input = "{}"
    /\ io.output.content[3].id = "d"

\* service.py lines 152-162: the response is handed to the dispatcher
Dispatched(resp) == resp.stop_reason # "end_turn" /\ has_tool_calls(resp)

\* the wire response carries a tool call, in its content or in the sibling
\* field
CarriesToolCalls(response_data) ==
    \/ WireMessage(response_data).tool_calls # <<>>
    \/ \E i \in DOMAIN WireMessage(response_data).content.blocks :
          WireMessage(response_data).content.blocks[i].type = "tool_use"

Supplies(c, name) ==
    name \in DOMAIN sampling[c].params /\ sampling[c].params[name] # None

\* C38: while the sampling handler of a client waits for the model, the call
\* of chat it made carries the request's temperature and token limit where
\* the request supplies them, and the defaults 0.7 and 1000 where the
\* request's value is missing or None.
SamplingUsesRequestValuesOrDefaults ==
    \A c \in Clients :
        sampling[c].pc = "calling"
        => /\ sampling[c].chat.temperature =
                IF Supplies(c, "temperature") THEN sampling[c].params.temperature
                ELSE Some(DefaultTemperature)
           /\ sampling[c].chat.max_tokens =
                IF Supplies(c, "maxTokens") THEN sampling[c].params.maxTokens
                ELSE Some(DefaultMaxTokens)

\* C40: from_openrouter_response is a pure function of its argument: after
\* it returned, the raw response the caller handed over is what it was
\* before the call, and a second call with the same object returns an
\* LLMResponse equal to the first (same content blocks, hence same tool
\* calls, and same stop_reason).
ParsingLeavesResponseAlone ==
    (io.op = "from_openrouter_response" /\ io.pc \in {"returned", "read"})
    => /\ io.argument = io.input
       /\ io.again # NoSecondCall
          => /\ io.again.raised = "none"
             /\ io.again.value = ReturnedResponse

====
